---------------------------- MODULE Spec2Model ----------------------------
(***************************************************************************)
(* Model of the MSDS intake pipeline:                                      *)
(*   - msds_text_extractor.extract_pdf_text_auto  (page text acquisition)  *)
(*   - section.msds_section_splitter.split_sections_auto (segmentation)    *)
(* A text is a sequence of one-character strings, so that trimming,        *)
(* splitting, joining and pattern matching are computed, not assumed.      *)
(***************************************************************************)
EXTENDS Integers, Sequences, FiniteSets, TLC

(* ------------------------------ bounds -------------------------------- *)
MaxPages == 2

(* ------------------------------- state -------------------------------- *)
\* _extract_by_words (utils/robust_pdf_text.py)
VARIABLES
  vpc,        \* position in _extract_by_words
  words,      \* page.get_text("words"), coordinates in tenths of a point
  cols,       \* what _detect_columns returned
  cols_done,  \* number of columns the loop of line 76 has handled
  lines_out,
  vtext       \* the text returned

visVars == <<vpc, words, cols, cols_done, lines_out, vtext>>

\* one call of _map_title_to_canon (section/msds_section_splitter.py)
VARIABLES
  tpc,        \* position in _map_title_to_canon
  arg_title,  \* the argument raw_title
  arg_hint,   \* the argument num_hint ("" for None)
  mapped      \* the key returned (NoCanon for None)

titleVars == <<tpc, arg_title, arg_hint, mapped>>

\* one call of _cleanup, and a second one on its result
\* (utils/robust_pdf_text.py)
VARIABLES
  cpc,       \* position
  c_text,    \* the argument of the first call
  c_once,    \* what the first call returned
  c_twice    \* what the second call returned

cleanVars == <<cpc, c_text, c_once, c_twice>>

\* one call of _strip_headers_footers (utils/robust_pdf_text.py)
VARIABLES
  hpc,        \* position
  page_text,  \* the argument
  kept_text   \* the text returned

stripVars == <<hpc, page_text, kept_text>>

\* one call of extract_pdf_text_visual_order (utils/robust_pdf_text.py)
VARIABLES
  dpc,        \* position
  bodies,     \* what the page extractor returns for each page of the file
  max_pages,  \* the argument (0 stands for None)
  doc_parts,  \* the list built by the loop of line 134
  doc_text    \* the text returned

docVars == <<dpc, bodies, max_pages, doc_parts, doc_text>>

\* one call of map_hcodes_to_pictos (field/ghs_pictogram_mapper.py)
VARIABLES
  gpc,               \* position
  hcodes,            \* the argument
  include_env_h412,  \* the policy
  pictos,
  pic_list           \* the value of "pictograms" in the dict returned

ghsVars == <<gpc, hcodes, include_env_h412, pictos, pic_list>>

\* the variables of the functions that are called on their own
auxVars == <<titleVars, cleanVars, stripVars, docVars, ghsVars>>

\* extract_pdf_text_auto
VARIABLES
  apc,            \* position in extract_pdf_text_auto
  cv2_ok,         \* whether the OpenCV module (cv2) can be imported
  digital_texts,  \* native text of each page, in page order
  images,         \* rendered page images: images[k] is the raster of page k-1
  renderer,       \* which rasteriser produced the images
  pages,          \* the PageResult list built so far
  ocr_calls,      \* every _ocr_pil invocation, in call order
  merged_text,    \* ExtractResult.merged_text
  final_logs      \* ExtractResult.final_decision_log

acqVars == <<apc, cv2_ok, digital_texts, images, renderer, pages, ocr_calls, merged_text, final_logs>>

\* split_sections_auto and the module state it reads
VARIABLES
  spc,               \* position in split_sections_auto
  lexicon_imported,  \* whether section.msds_header_lexicon was imported
  synonyms_file,     \* content of config/synonyms.yml at import time
  SEARCH_SPACE,      \* the module-level lexicon, built at import
  has_rapid,         \* _HAS_RAPID
  fuzzy_oracle,      \* what the fuzzy scorer returns for a title
  full_text,         \* the argument
  lines,
  template,
  num_headers,
  cand_canon,        \* the candidates of the fuzzy strategy, each with its key
  headers,
  strategy,          \* which branch of line 217 supplied the headers
  sections,
  logs,
  earlier            \* the calls completed before in this process, with their results

segVars == <<spc, lexicon_imported, synonyms_file, SEARCH_SPACE, has_rapid, fuzzy_oracle,
             full_text, lines, template, num_headers, cand_canon, headers, strategy,
             sections, logs, earlier>>

(* --------------------------- string helpers --------------------------- *)
\* the characters of an ASCII string literal, as a sequence
Chars(s) == [k \in 1..Len(s) |-> SubSeq(s, k, k)]

\* n copies of the character c
Rep(c, n) == [k \in 1..n |-> c]

\* characters removed by Python's str.strip()
PyWhitespace == {" ", "\t", "\n", "\r"}

RECURSIVE LStrip(_)
LStrip(s) == IF s # <<>> /\ Head(s) \in PyWhitespace THEN LStrip(Tail(s)) ELSE s

RECURSIVE RStrip(_)
RStrip(s) ==
  IF s # <<>> /\ s[Len(s)] \in PyWhitespace THEN RStrip(SubSeq(s, 1, Len(s) - 1)) ELSE s

\* str.strip()
Strip(s) == RStrip(LStrip(s))

\* sep.join(parts): concatenation with a separator between successive parts
JoinReversed(sep, parts) ==
  LET F[k \in 0..Len(parts)] ==
        IF k = 0 THEN <<>>
        ELSE IF k = 1 THEN parts[1]
        ELSE parts[k] \o sep \o F[k - 1]
  IN F[Len(parts)]

Join(sep, parts) ==
  LET F[k \in 0..Len(parts)] ==
        IF k = 0 THEN <<>>
        ELSE IF k = 1 THEN parts[1]
        ELSE F[k - 1] \o sep \o parts[k]
  IN F[Len(parts)]

(* ======================= msds_text_extractor.py ======================= *)

\* default of _has_enough_text's min_len: the digital-text threshold
MinDigitalLen == 40
\* the threshold given at the call for the first OCR output
MinOcrLen == 10

has_enough_text_strict(s, min_len) == Len(Strip(s)) > min_len

has_enough_text(s, min_len) == Len(Strip(s)) >= min_len

\* Native text layers a page may carry (doc[i].get_text()).
NativeTexts ==
  { <<>>,
    Rep("a", 40),
    <<" ">> \o Rep("b", 39) \o <<"\n">>,
    Rep("c", 38) \o <<"\n", "\n">>,
    <<"\n">> \o Rep("d", 41) \o <<"\n">> }

\* Raw strings the OCR engine may return (pytesseract.image_to_string).
OcrTexts ==
  { <<>>,
    <<" ">> \o Rep("x", 9) \o <<"\n">>,
    Rep("y", 10) \o <<"\n">>,
    Rep("z", 12) }

\* An OCR call either returns a string or raises (pytesseract raises
\* TesseractError / TesseractNotFoundError; _ocr_pil has no handler).
OcrRaise == [raised |-> TRUE, text |-> <<>>]
OcrOutcomes == {[raised |-> FALSE, text |-> t] : t \in OcrTexts} \cup {OcrRaise}

\* The attempt labels of the ladder
AttemptDigital == <<"digital ok">>
AttemptOcr1 == "ocr psm6 oem3 adaptive"
AttemptOcr2 == "ocr psm4 oem3 adaptive+resize"

\* the constructor called without its attempts argument (dataclass default)
PageResultNoAttempts(i, source, text, scanned, attempts) ==
  [page_index |-> i, source |-> source, text |-> text,
   is_scanned_guess |-> scanned, attempts |-> <<>>]

PageResult(i, source, text, scanned, attempts) ==
  [page_index |-> i, source |-> source, text |-> text,
   is_scanned_guess |-> scanned, attempts |-> attempts]

\* One _ocr_pil invocation: the page whose image is read, the page
\* segmentation mode, whether the image went through _preprocess, and the
\* outcome of the engine.
OcrCall(i, psm, pre, out) == [page |-> i, psm |-> psm, preprocessed |-> pre, out |-> out]

NumPages == Len(digital_texts)

AcqInit ==
  /\ apc = "import"
  /\ cv2_ok \in BOOLEAN
  /\ digital_texts \in UNION { [1..n -> NativeTexts] : n \in 1..MaxPages }
  /\ images = <<>>
  /\ renderer = "none"
  /\ pages = <<>>
  /\ ocr_calls = <<>>
  /\ merged_text = <<>>
  /\ final_logs = <<>>

\* lines 5-13: the imports at the head of the module; none is guarded, so
\* a missing cv2 ends the import of the module with an ImportError
ImportModules ==
  /\ apc = "import"
  /\ apc' = IF cv2_ok THEN "render" ELSE "import_error"
  /\ UNCHANGED <<cv2_ok, digital_texts, images, renderer, pages, ocr_calls,
                 merged_text, final_logs>>
  /\ UNCHANGED <<segVars, visVars, auxVars>>

\* what the rendering of lines 67-76 may come to: pdf2image succeeds, or
\* it raises and PyMuPDF renders, or PyMuPDF raises as well
RenderOutcomes == {"pdf2image", "fitz", "failed"}

\* lines 67-76: every page is rendered before the page loop starts;
\* pdf2image renders, if it raises PyMuPDF does, and an exception of
\* PyMuPDF is not caught.
Render ==
  /\ apc = "render"
  /\ \E r \in RenderOutcomes :
       /\ renderer' = r
       /\ images' = IF r = "failed" THEN <<>> ELSE [k \in 1..NumPages |-> k - 1]
       /\ apc' = IF r = "failed" THEN "raised" ELSE "pages"
  /\ UNCHANGED <<cv2_ok, digital_texts, pages, ocr_calls, merged_text, final_logs>>
  /\ UNCHANGED <<segVars, visVars, auxVars>>

\* index (0-based) of the page the loop of line 78 handles next
CurPage == Len(pages)

\* lines 79-83: the native text is long enough
PageDigital ==
  /\ apc = "pages"
  /\ CurPage < NumPages
  /\ LET i == CurPage
         raw == digital_texts[i + 1]
     IN /\ has_enough_text(raw, MinDigitalLen)
        /\ pages' = Append(pages, PageResult(i, "digital", raw, FALSE, AttemptDigital))
  /\ UNCHANGED <<apc, cv2_ok, digital_texts, images, renderer, ocr_calls, merged_text,
                 final_logs>>
  /\ UNCHANGED <<segVars, visVars, auxVars>>

\* retry only on an empty first output
NeedsRetryOnlyEmpty(txt) == Len(txt) = 0

\* the image of the first page, whatever the page
PageImageFirst(imgs, i) == imgs[1]

\* line 87: pil = images[i]
PageImage(imgs, i) == imgs[i + 1]

\* the longer of the two attempts' texts
RetryTextLonger(first, second) == IF Len(second) >= Len(first) THEN second ELSE first

\* line 98: txt is assigned again, the text of the first attempt is lost
RetryText(first, second) == second

\* the predicate of line 93 that sends the page to the second rung
NeedsRetry(txt) == ~has_enough_text(txt, MinOcrLen)

\* lines 85-100: the page is taken for a scan; r1 and r2 are what the OCR
\* engine does on the first and on the second call.
PageOcr ==
  /\ apc = "pages"
  /\ CurPage < NumPages
  /\ LET i == CurPage
         raw == digital_texts[i + 1]
         pil == PageImage(images, i)
     IN /\ ~has_enough_text(raw, MinDigitalLen)
        /\ \E r1 \in OcrOutcomes, r2 \in OcrOutcomes :
             LET call1 == OcrCall(pil, 6, FALSE, r1)
                 call2 == OcrCall(pil, 4, TRUE, r2)
             IN IF r1.raised
                THEN /\ ocr_calls' = Append(ocr_calls, call1)
                     /\ apc' = "raised"
                     /\ pages' = pages
                ELSE IF ~NeedsRetry(Strip(r1.text))
                THEN /\ ocr_calls' = Append(ocr_calls, call1)
                     /\ apc' = apc
                     /\ pages' = Append(pages,
                          PageResult(i, "ocr", Strip(r1.text), TRUE, <<AttemptOcr1>>))
                ELSE IF r2.raised
                THEN /\ ocr_calls' = ocr_calls \o <<call1, call2>>
                     /\ apc' = "raised"
                     /\ pages' = pages
                ELSE /\ ocr_calls' = ocr_calls \o <<call1, call2>>
                     /\ apc' = apc
                     /\ pages' = Append(pages,
                          PageResult(i, "ocr", RetryText(Strip(r1.text), Strip(r2.text)),
                                     TRUE, <<AttemptOcr1, AttemptOcr2>>))
  /\ UNCHANGED <<cv2_ok, digital_texts, images, renderer, merged_text, final_logs>>
  /\ UNCHANGED <<segVars, visVars, auxVars>>

LogOcr == "ocr performed"
LogDigital == "digital only"

\* lines 102-108: merge and return
Finish ==
  /\ apc = "pages"
  /\ CurPage = NumPages
  /\ merged_text' = Join(<<"\n", "\n">>, [k \in 1..Len(pages) |-> pages[k].text])
  /\ final_logs' = IF \E k \in 1..Len(pages) : pages[k].source = "ocr"
                   THEN <<LogOcr>> ELSE <<LogDigital>>
  /\ apc' = "returned"
  /\ UNCHANGED <<cv2_ok, digital_texts, images, renderer, pages, ocr_calls>>
  /\ UNCHANGED <<segVars, visVars, auxVars>>

AcqNext == ImportModules \/ Render \/ PageDigital \/ PageOcr \/ Finish

(* ================= section/msds_section_splitter.py =================== *)
(* ----------------------------- text helpers --------------------------- *)
UpperLetters == Chars("ABCDEFGHIJKLMNOPQRSTUVWXYZ")
LowerLetters == Chars("abcdefghijklmnopqrstuvwxyz")
UpperSet == {UpperLetters[k] : k \in 1..26}
LowerSet == {LowerLetters[k] : k \in 1..26}
LowerOf == [c \in UpperSet |-> LowerLetters[CHOOSE k \in 1..26 : UpperLetters[k] = c]]
UpperOf == [c \in LowerSet |-> UpperLetters[CHOOSE k \in 1..26 : LowerLetters[k] = c]]

\* str.lower() and str.upper() (the Hangul atoms have no case)
Lower(s) == [k \in 1..Len(s) |-> IF s[k] \in UpperSet THEN LowerOf[s[k]] ELSE s[k]]
Upper(s) == [k \in 1..Len(s) |-> IF s[k] \in LowerSet THEN UpperOf[s[k]] ELSE s[k]]

\* needle in hay
Contains(hay, needle) ==
  \/ needle = <<>>
  \/ \E o \in 1..(Len(hay) - Len(needle) + 1) :
       /\ hay[o] = needle[1]
       /\ SubSeq(hay, o, o + Len(needle) - 1) = needle

\* s.startswith(prefix)
StartsWith(s, prefix) ==
  Len(prefix) <= Len(s) /\ SubSeq(s, 1, Len(prefix)) = prefix

\* the elements of a finite set of numbers, ascending
RECURSIVE SortedSeq(_)
SortedSeq(S) ==
  IF S = {} THEN <<>>
  ELSE LET m == CHOOSE x \in S : \A y \in S : x <= y
       IN <<m>> \o SortedSeq(S \ {m})

\* first position >= k of s that holds sep (Len + 1 if none)
NextSep(s, sep, k) ==
  CHOOSE q \in k..(Len(s) + 1) : q = Len(s) + 1 \/ s[q] = sep

\* s.split(sep) for a one-character separator: the pieces from position k on
RECURSIVE SplitFrom(_, _, _)
SplitFrom(s, sep, k) ==
  LET q == NextSep(s, sep, k)
  IN IF q = Len(s) + 1 THEN <<SubSeq(s, k, Len(s))>>
     ELSE <<SubSeq(s, k, q - 1)>> \o SplitFrom(s, sep, q + 1)

Split(s, sep) == SplitFrom(s, sep, 1)

\* s.strip(chars)
RECURSIVE LStripChars(_, _)
LStripChars(s, cs) == IF s # <<>> /\ Head(s) \in cs THEN LStripChars(Tail(s), cs) ELSE s

RECURSIVE RStripChars(_, _)
RStripChars(s, cs) ==
  IF s # <<>> /\ s[Len(s)] \in cs THEN RStripChars(SubSeq(s, 1, Len(s) - 1), cs) ELSE s

StripChars(s, cs) == RStripChars(LStripChars(s, cs), cs)

\* re.sub(r"[ \t]+", " ", s): every run of blanks becomes one space
Blank == {" ", "\t"}
RECURSIVE CollapseFrom(_, _)
CollapseFrom(s, k) ==
  IF k > Len(s) THEN <<>>
  ELSE IF s[k] \notin Blank THEN <<s[k]>> \o CollapseFrom(s, k + 1)
  ELSE IF k > 1 /\ s[k - 1] \in Blank THEN CollapseFrom(s, k + 1)
  ELSE <<" ">> \o CollapseFrom(s, k + 1)

CollapseBlanks(s) == CollapseFrom(s, 1)

\* _normalize_lines
NormalizeLines(text) ==
  LET lines0 == Split(SelectSeq(text, LAMBDA c : c # "\r"), "\n")
  IN [j \in 1..Len(lines0) |-> CollapseBlanks(Strip(lines0[j]))]

(* ------------------------------ patterns ------------------------------ *)
Digits == {"0", "1", "2", "3", "4", "5", "6", "7", "8", "9"}

\* number of digits s starts with
LeadingDigits(s) ==
  CHOOSE n \in 0..Len(s) :
    /\ \A k \in 1..n : s[k] \in Digits
    /\ n = Len(s) \/ s[n + 1] \notin Digits

NoMatch == [ok |-> FALSE, num |-> "", title |-> <<>>]

\* the digits of a match of (\d{1,2}) as the dict key they form
NumKey(d) == IF Len(d) = 1 THEN d[1] ELSE d[1] \o d[2]

\* KOSHA_HEADER_RE.match(ln), ^\s*(\d{1,2})\.\s*(.+?)\s*$, for a line of
\* _normalize_lines (trimmed, no line break): one or two digits, directly
\* followed by a dot, then the title, which is the rest without the
\* blanks around it and must not be empty.
KoshaHeaderMatch(ln) ==
  LET s == LStrip(ln)
      nd == LeadingDigits(s)
      rest == SubSeq(s, nd + 2, Len(s))
      title == Strip(rest)
  IN IF /\ nd \in {1, 2}
        /\ Len(s) >= nd + 1
        /\ s[nd + 1] = "."
        /\ title # <<>>
     THEN [ok |-> TRUE, num |-> NumKey(SubSeq(s, 1, nd)), title |-> title]
     ELSE NoMatch

\* first position >= p of text that holds no whitespace (Len + 1 if none)
SkipWs(text, p) ==
  CHOOSE q \in p..(Len(text) + 1) :
    /\ \A k \in p..(q - 1) : text[k] \in PyWhitespace
    /\ q = Len(text) + 1 \/ text[q] \notin PyWhitespace

\* where a match of ^\s*\d{1,2}\.\s+ that starts at p ends (the position
\* after it), 0 if there is none
NumberedPrefixEnd(text, p) ==
  LET q == SkipWs(text, p)
      nd == LeadingDigits(SubSeq(text, q, Len(text)))
      dot == q + nd
      e == SkipWs(text, dot + 1)
  IN IF /\ nd \in {1, 2}
        /\ dot <= Len(text)
        /\ text[dot] = "."
        /\ e > dot + 1
     THEN e ELSE 0

\* len(re.findall(r'^\s*\d{1,2}\.\s+', text, flags=re.MULTILINE)): the
\* matches are taken left to right and do not overlap; one can start only
\* at the start of a line.
RECURSIVE CountNumberedFrom(_, _, _)
CountNumberedFrom(text, starts, pos) ==
  IF starts = <<>> THEN 0
  ELSE LET p == Head(starts)
           e == IF p < pos THEN 0 ELSE NumberedPrefixEnd(text, p)
       IN IF e = 0 THEN CountNumberedFrom(text, Tail(starts), pos)
          ELSE 1 + CountNumberedFrom(text, Tail(starts), e)

LineStarts(text) ==
  SortedSeq({p \in 1..Len(text) : p = 1 \/ text[p - 1] = "\n"})

CountNumberedLines(text) == CountNumberedFrom(text, LineStarts(text), 1)

\* the branding marker of line 68 in Hangul
KoshaAgency == <<"uC0B0", "uC5C5", "uC548", "uC804", "uBCF4", "uAC74", "uACF5", "uB2E8">>

\* the number of numbered lines from which the text is labelled KOSHA
TemplateMinNumbered == 8

\* _detect_template
DetectTemplate(text) ==
  LET kosha_hit == Contains(Upper(text), Chars("KOSHA")) \/ Contains(text, KoshaAgency)
      numbered == CountNumberedLines(text) >= TemplateMinNumbered
  IN IF kosha_hit \/ numbered THEN "KOSHA" ELSE "VENDOR"

(* ------------------------------ lexicon ------------------------------- *)
\* NUM_TO_CANON, lines 10-16
NUM_TO_CANON ==
  [n \in {"1", "2", "3", "4", "5", "6", "7", "8", "9", "10", "11", "12", "13", "14",
          "15", "16"} |->
     CASE n = "1" -> "identification" [] n = "2" -> "hazards"
       [] n = "3" -> "composition" [] n = "4" -> "first_aid"
       [] n = "5" -> "fire_fighting" [] n = "6" -> "accidental_release"
       [] n = "7" -> "handling_storage" [] n = "8" -> "exposure_ppe"
       [] n = "9" -> "physical_chemical" [] n = "10" -> "stability_reactivity"
       [] n = "11" -> "toxicology" [] n = "12" -> "ecology"
       [] n = "13" -> "disposal" [] n = "14" -> "transport"
       [] n = "15" -> "regulation" [] n = "16" -> "other"]

\* the 16 canonical keys, in section order
CanonKeys ==
  <<"identification", "hazards", "composition", "first_aid", "fire_fighting",
    "accidental_release", "handling_storage", "exposure_ppe", "physical_chemical",
    "stability_reactivity", "toxicology", "ecology", "disposal", "transport",
    "regulation", "other">>

\* the values `k in GHS_TERMS` accepts: GHS_TERMS of msds_header_lexicon is
\* a dict keyed "1".."16"; the GHS_TERMS of the except branch is the list
\* of the canonical keys
GHS_TERMS_LEXICON == DOMAIN NUM_TO_CANON
GHS_TERMS_FALLBACK == {CanonKeys[k] : k \in 1..16}

GHS_TERMS(imported) == IF imported THEN GHS_TERMS_LEXICON ELSE GHS_TERMS_FALLBACK

\* msds_header_lexicon.BASE_SYNONYMS, in dict order; a character outside
\* ASCII is written as the atom "uXXXX" of its code point
BASE_SYNONYMS_LEXICON ==
  <<
    [key |-> "identification", terms |-> <<
       <<"uC81C", "uD488", " ", "uBC0F", " ", "uD68C", "uC0AC">>,
       <<"uD654", "uD559", "uC81C", "uD488", "uACFC", " ", "uC81C", "uC870", "uD68C", "uC0AC">>,
       <<"uC81C", "uD488", " ", "uC2DD", "uBCC4">>,
       <<"uC2DD", "uBCC4">>,
       <<"uC81C", "uD488", "uBA85">>,
       <<"uC81C", "uD488", " ", "uC2DD", "uBCC4", "uC790">>,
       Chars("supplier identification"),
       Chars("company identification"),
       Chars("identification")
    >>],
    [key |-> "hazards", terms |-> <<
       <<"uC720", "uD574", "uC131">>,
       <<"uC704", "uD5D8", "uC131">>,
       <<"uACBD", "uACE0", "uBB38", "uAD6C">>,
       <<"uC8FC", "uC758", "uBB38", "uAD6C">>,
       <<"uADF8", "uB9BC", "uBB38", "uC790">>,
       <<"uC2E0", "uD638", "uC5B4">>,
       <<"uD45C", "uC2DC", "uC0AC", "uD56D">>,
       Chars("hazards"),
       Chars("hazard identification"),
       Chars("label elements"),
       Chars("signal word")
    >>],
    [key |-> "composition", terms |-> <<
       <<"uAD6C", "uC131", "uC131", "uBD84">>,
       <<"uC131", "uBD84">>,
       <<"uC870", "uC131">>,
       <<"uC6D0", "uB8CC", " ", "uC815", "uBCF4">>,
       <<"uD63C", "uD569", "uBB3C", " ", "uC815", "uBCF4">>,
       Chars("composition"),
       Chars("ingredients"),
       Chars("mixture")
    >>],
    [key |-> "first_aid", terms |-> <<
       <<"uC751", "uAE09", "uC870", "uCE58">>,
       <<"uC751", "uAE09", " ", "uCC98", "uCE58">>,
       <<"uC758", "uD559", "uC801", " ", "uC870", "uCE58">>,
       <<"uD761", "uC785", " ", "uC2DC">>,
       <<"uD53C", "uBD80", " ", "uC811", "uCD09", " ", "uC2DC">>,
       <<"uB208", " ", "uC811", "uCD09", " ", "uC2DC">>,
       <<"uC0BC", "uD0A8", " ", "uACBD", "uC6B0">>,
       Chars("first-aid"),
       Chars("first aid")
    >>],
    [key |-> "fire_fighting", terms |-> <<
       <<"uD654", "uC7AC", " ", "uC2DC", " ", "uC870", "uCE58">>,
       <<"uC18C", "uD654">>,
       <<"uC18C", "uD654", " ", "uBC29", "uBC95">>,
       <<"uC801", "uC6A9", " ", "uC18C", "uD654", "uC81C">>,
       <<"uBD80", "uC801", "uD569", " ", "uC18C", "uD654", "uC81C">>,
       Chars("fire-fighting"),
       Chars("fire fighting"),
       Chars("fire measures")
    >>],
    [key |-> "accidental_release", terms |-> <<
       <<"uB204", "uCD9C", "uC0AC", "uACE0">>,
       <<"uC720", "uCD9C", "uC0AC", "uACE0">>,
       <<"uB204", "uCD9C", " ", "uC2DC", " ", "uC870", "uCE58">>,
       <<"uBE44", "uC0C1", " ", "uC870", "uCE58">>,
       Chars("accidental release"),
       Chars("spillage"),
       Chars("leak"),
       Chars("spill")
    >>],
    [key |-> "handling_storage", terms |-> <<
       <<"uCDE8", "uAE09", " ", "uBC0F", " ", "uC800", "uC7A5">>,
       <<"uCDE8", "uAE09">>,
       <<"uC800", "uC7A5">>,
       <<"uBCF4", "uAD00">>,
       Chars("handling"),
       Chars("storage"),
       Chars("store")
    >>],
    [key |-> "exposure_ppe", terms |-> <<
       <<"uB178", "uCD9C", "uAE30", "uC900">>,
       <<"uAC1C", "uC778", "uBCF4", "uD638", "uAD6C">>,
       <<"uBCF4", "uD638", "uC7A5", "uBE44">>,
       <<"uC791", "uC5C5", "uC7A5", " ", "uAD00", "uB9AC">>,
       <<"uD658", "uAE30">>,
       Chars("PPE"),
       Chars("exposure control"),
       Chars("personal protection"),
       Chars("protective equipment")
    >>],
    [key |-> "physical_chemical", terms |-> <<
       <<"uBB3C", "uB9AC", "u00B7", "uD654", "uD559", "uC801", " ", "uD2B9", "uC131">>,
       <<"uBB3C", "uB9AC", "uD654", "uD559", "uC801", " ", "uC131", "uC9C8">>,
       <<"uBB3C", "uB9AC", "uC801", " ", "uC131", "uC9C8">>,
       <<"uBB3C", "uB9AC", "uD654", "uD559", "uC801", " ", "uD2B9", "uC131">>,
       Chars("physical and chemical properties"),
       Chars("properties")
    >>],
    [key |-> "stability_reactivity", terms |-> <<
       <<"uC548", "uC815", "uC131">>,
       <<"uBC18", "uC751", "uC131">>,
       <<"uC704", "uD574", "uBC18", "uC751">>,
       <<"uD68C", "uD53C", "uC870", "uAC74">>,
       <<"uAE08", "uC9C0", "uBB3C", "uC9C8">>,
       Chars("stability"),
       Chars("reactivity")
    >>],
    [key |-> "toxicology", terms |-> <<
       <<"uB3C5", "uC131">>,
       <<"uB3C5", "uC131", " ", "uC815", "uBCF4">>,
       <<"uAE09", "uC131", "uB3C5", "uC131">>,
       <<"uC7A5", "uAE30", "uB3C5", "uC131">>,
       <<"uBC1C", "uC554", "uC131">>,
       <<"uC0DD", "uC2DD", "uB3C5", "uC131">>,
       Chars("toxicology"),
       Chars("toxicological information")
    >>],
    [key |-> "ecology", terms |-> <<
       <<"uC0DD", "uD0DC">>,
       <<"uD658", "uACBD", " ", "uC601", "uD5A5">>,
       <<"uC218", "uC0DD", "uD0DC", " ", "uB3C5", "uC131">>,
       <<"uC9C0", "uC18D", "uC131">>,
       <<"uBD84", "uD574", "uC131">>,
       <<"uC0DD", "uBB3C", "uB18D", "uCD95">>,
       Chars("ecology"),
       Chars("ecological information")
    >>],
    [key |-> "disposal", terms |-> <<
       <<"uD3D0", "uAE30">>,
       <<"uD3D0", "uAE30", " ", "uC2DC", " ", "uC8FC", "uC758", "uC0AC", "uD56D">>,
       <<"uD3D0", "uAE30", "uBC29", "uBC95">>,
       <<"uD3D0", "uAE30", "uC0C1", " ", "uC8FC", "uC758">>,
       Chars("disposal"),
       Chars("disposal considerations")
    >>],
    [key |-> "transport", terms |-> <<
       <<"uC6B4", "uC1A1">>,
       <<"uC6B4", "uC1A1", " ", "uC815", "uBCF4">>,
       <<"U", "N", " ", "uBC88", "uD638">>,
       <<"uD3EC", "uC7A5", "uADF8", "uB8F9">>,
       <<"uD574", "uC0AC", "uADDC", "uC815">>,
       <<"uD56D", "uACF5", "uC6B4", "uC1A1">>,
       Chars("transport"),
       Chars("transport information")
    >>],
    [key |-> "regulation", terms |-> <<
       <<"uADDC", "uC81C">>,
       <<"uBC95", "uADDC">>,
       <<"uBC95", "uC801", " ", "uADDC", "uC81C">>,
       <<"uAD00", "uB828", " ", "uBC95", "uB839">>,
       <<"uD654", "uAD00", "uBC95">>,
       <<"uD654", "uD3C9", "uBC95">>,
       <<"uC0B0", "uC548", "uBC95">>,
       Chars("regulatory"),
       Chars("regulatory information")
    >>],
    [key |-> "other", terms |-> <<
       <<"uAE30", "uD0C0">>,
       <<"uCC38", "uACE0">>,
       <<"uAE30", "uD0C0", " ", "uCC38", "uACE0", "uC0AC", "uD56D">>,
       <<"uAC1C", "uC815", " ", "uC774", "uB825">>,
       <<"uBE44", "uACE0">>,
       Chars("other"),
       Chars("references"),
       Chars("revision"),
       Chars("note")
    >>]
  >>

\* the BASE_SYNONYMS of the except branch (the lexicon module did not import)
BASE_SYNONYMS_FALLBACK ==
  <<
    [key |-> "identification", terms |-> <<
       <<"uC81C", "uD488", " ", "uC815", "uBCF4">>,
       <<"uC81C", "uD488", " ", "uC2DD", "uBCC4">>,
       <<"uD654", "uD559", "uC81C", "uD488", "uACFC", " ", "uD68C", "uC0AC", "uC5D0", " ", "uAD00", "uD55C", " ", "uC815", "uBCF4">>,
       <<"uC2DD", "uBCC4">>,
       Chars("identifier"),
       Chars("identification"),
       Chars("supplier"),
       <<"uD68C", "uC0AC", " ", "uC815", "uBCF4">>,
       <<"uC81C", "uC870", "uC0AC", " ", "uC815", "uBCF4">>
    >>],
    [key |-> "hazards", terms |-> <<
       <<"uC720", "uD574", "uC131">>,
       <<"uC704", "uD5D8", "uC131">>,
       <<"uD45C", "uC2DC", "uC0AC", "uD56D">>,
       <<"uACBD", "uACE0", "uD45C", "uC9C0">>,
       Chars("GHS"),
       Chars("hazard"),
       Chars("hazards"),
       Chars("label")
    >>],
    [key |-> "composition", terms |-> <<
       <<"uAD6C", "uC131", "uC131", "uBD84">>,
       <<"uC131", "uBD84">>,
       <<"uC870", "uC131">>,
       Chars("ingredient"),
       Chars("composition")
    >>],
    [key |-> "first_aid", terms |-> <<
       <<"uC751", "uAE09", "uC870", "uCE58">>,
       <<"uC751", "uAE09", "uC870", "uCE58", "uC694", "uB839">>,
       Chars("first aid")
    >>],
    [key |-> "fire_fighting", terms |-> <<
       <<"uD3ED", "uBC1C", "u00B7", "uD654", "uC7AC">>,
       <<"uD654", "uC7AC", "uC2DC", " ", "uB300", "uCC98">>,
       <<"uC18C", "uD654">>,
       Chars("fire fighting"),
       Chars("fire-fighting")
    >>],
    [key |-> "accidental_release", terms |-> <<
       <<"uB204", "uCD9C", "uC0AC", "uACE0">>,
       <<"uC720", "uCD9C", "uC0AC", "uACE0">>,
       Chars("accidental release")
    >>],
    [key |-> "handling_storage", terms |-> <<
       <<"uCDE8", "uAE09", " ", "uBC0F", " ", "uC800", "uC7A5">>,
       <<"uC800", "uC7A5", "uBC29", "uBC95">>,
       <<"uCDE8", "uAE09">>,
       Chars("handling"),
       Chars("storage"),
       Chars("handling and storage")
    >>],
    [key |-> "exposure_ppe", terms |-> <<
       <<"uB178", "uCD9C", "uAE30", "uC900">>,
       <<"uAC1C", "uC778", "uBCF4", "uD638", "uAD6C">>,
       <<"uACF5", "uD559", "uC801", " ", "uAD00", "uB9AC">>,
       Chars("exposure"),
       Chars("ppe"),
       Chars("personal protection")
    >>],
    [key |-> "physical_chemical", terms |-> <<
       <<"uBB3C", "uB9AC", "uD654", "uD559", "uC801", " ", "uD2B9", "uC131">>,
       <<"uBB3C", "uB9AC", "uC801", " ", "uC131", "uC9C8">>,
       <<"uD654", "uD559", "uC801", " ", "uC131", "uC9C8">>,
       Chars("physical and chemical"),
       Chars("physical properties")
    >>],
    [key |-> "stability_reactivity", terms |-> <<
       <<"uC548", "uC815", "uC131", " ", "uBC0F", " ", "uBC18", "uC751", "uC131">>,
       Chars("stability"),
       Chars("reactivity")
    >>],
    [key |-> "toxicology", terms |-> <<
       <<"uB3C5", "uC131", "uC5D0", " ", "uAD00", "uD55C", " ", "uC815", "uBCF4">>,
       Chars("toxicological"),
       Chars("toxicology")
    >>],
    [key |-> "ecology", terms |-> <<
       <<"uD658", "uACBD", "uC5D0", " ", "uBBF8", "uCE58", "uB294", " ", "uC601", "uD5A5">>,
       <<"uC0DD", "uD0DC">>,
       Chars("ecological"),
       Chars("ecotoxicity")
    >>],
    [key |-> "disposal", terms |-> <<
       <<"uD3D0", "uAE30", "uC2DC", " ", "uC8FC", "uC758", "uC0AC", "uD56D">>,
       <<"uCC98", "uBD84">>,
       Chars("disposal")
    >>],
    [key |-> "transport", terms |-> <<
       <<"uC6B4", "uC1A1", "uC5D0", " ", "uD544", "uC694", "uD55C", " ", "uC815", "uBCF4">>,
       Chars("transport")
    >>],
    [key |-> "regulation", terms |-> <<
       <<"uADDC", "uC81C", " ", "uC815", "uBCF4">>,
       <<"uBC95", "uADDC">>,
       Chars("regulatory"),
       Chars("regulation")
    >>],
    [key |-> "other", terms |-> <<
       <<"uAE30", "uD0C0", " ", "uCC38", "uACE0", "uC0AC", "uD56D">>,
       <<"uCC38", "uACE0">>,
       Chars("other"),
       Chars("reference"),
       <<"uAE30", "uD0C0">>
    >>]
  >>

BASE_SYNONYMS(imported) ==
  IF imported THEN BASE_SYNONYMS_LEXICON ELSE BASE_SYNONYMS_FALLBACK

\* _load_user_synonyms: the entries of config/synonyms.yml (an empty
\* sequence when there is no file) whose key is in GHS_TERMS
LoadUserSynonyms(imported, file) ==
  SelectSeq(file, LAMBDA e : e.key \in GHS_TERMS(imported))

KeysOf(space) == {space[n].key : n \in 1..Len(space)}

\* lines 87-89 for one entry of the user's dict: setdefault, then extend
RECURSIVE MergeUser(_, _)
MergeUser(merged, user) ==
  IF user = <<>> THEN merged
  ELSE LET e == Head(user)
           next == IF e.key \in KeysOf(merged)
                   THEN [n \in 1..Len(merged) |->
                           IF merged[n].key = e.key
                           THEN [merged[n] EXCEPT !.terms = @ \o e.terms]
                           ELSE merged[n]]
                   ELSE Append(merged, e)
       IN MergeUser(next, Tail(user))

\* lines 91-98: the first term of every lower-cased, trimmed spelling
Dedupe(terms) ==
  LET key(m) == Lower(Strip(terms[m]))
      keep == {m \in 1..Len(terms) :
                 key(m) # <<>> /\ \A j \in 1..(m - 1) : key(j) # key(m)}
      idx == SortedSeq(keep)
  IN [j \in 1..Len(idx) |-> terms[idx[j]]]

\* _build_search_space
BuildSearchSpace(imported, file) ==
  LET merged == MergeUser(BASE_SYNONYMS(imported), LoadUserSynonyms(imported, file))
  IN [n \in 1..Len(merged) |-> [merged[n] EXCEPT !.terms = Dedupe(@)]]

(* ------------------------- header detection --------------------------- *)
\* the absent canon (None)
NoCanon == ""

\* _is_short_title
IsShortTitle(line) ==
  /\ 4 <= Len(line) /\ Len(line) <= 80
  /\ Cardinality({k \in 1..Len(line) : line[k] = "."}) <= 3

HasColon(ln) == \E k \in 1..Len(ln) : ln[k] = ":"

\* ln.split(":", 1): the parts before and after the first colon
BeforeColon(ln) == SubSeq(ln, 1, (CHOOSE k \in 1..Len(ln) : ln[k] = ":" /\ \A j \in 1..(k - 1) : ln[j] # ":") - 1)
AfterColon(ln) == SubSeq(ln, (CHOOSE k \in 1..Len(ln) : ln[k] = ":" /\ \A j \in 1..(k - 1) : ln[j] # ":") + 1, Len(ln))

NoCand == [ok |-> FALSE, idx |-> 0, title |-> <<>>, num |-> ""]

\* what _collect_header_candidates makes of line i (0-based) of lines
Candidate(lns, i) ==
  LET ln == lns[i + 1]
      m == KoshaHeaderMatch(ln)
  IN IF m.ok
     THEN [ok |-> TRUE, idx |-> i, title |-> StripChars(m.title, {" ", ":"}), num |-> m.num]
     ELSE IF HasColon(ln) /\ IsShortTitle(Strip(BeforeColon(ln)))
     THEN [ok |-> TRUE, idx |-> i, title |-> Strip(BeforeColon(ln)), num |-> ""]
     ELSE IF IsShortTitle(ln)
     THEN [ok |-> TRUE, idx |-> i, title |-> ln, num |-> ""]
     ELSE NoCand

\* _collect_header_candidates
CollectHeaderCandidates(lns) ==
  LET all == [k \in 1..Len(lns) |-> Candidate(lns, k - 1)]
  IN SelectSeq(all, LAMBDA c : c.ok)

Header(i, canon, raw) == [idx |-> i, canon |-> canon, title |-> raw]

\* the loop of _collect_numbered_headers from line k (1-based) on, with the
\* keys seen so far
RECURSIVE NumberedFrom(_, _, _)
NumberedFrom(lns, k, seen) ==
  IF k > Len(lns) THEN <<>>
  ELSE LET m == KoshaHeaderMatch(lns[k])
           canon == IF m.ok /\ m.num \in DOMAIN NUM_TO_CANON
                    THEN NUM_TO_CANON[m.num] ELSE NoCanon
       IN IF canon = NoCanon \/ canon \in seen
          THEN NumberedFrom(lns, k + 1, seen)
          ELSE <<Header(k - 1, canon, StripChars(m.title, {" ", ":"}))>>
                 \o NumberedFrom(lns, k + 1, seen \cup {canon})

\* the loop of _collect_numbered_headers without the test on seen
RECURSIVE NumberedFromNoSeen(_, _)
NumberedFromNoSeen(lns, k) ==
  IF k > Len(lns) THEN <<>>
  ELSE LET m == KoshaHeaderMatch(lns[k])
       IN IF m.ok /\ m.num \in DOMAIN NUM_TO_CANON
          THEN <<Header(k - 1, NUM_TO_CANON[m.num], StripChars(m.title, {" ", ":"}))>>
                 \o NumberedFromNoSeen(lns, k + 1)
          ELSE NumberedFromNoSeen(lns, k + 1)

CollectNumberedHeadersNoSeen(lns) == NumberedFromNoSeen(lns, 1)

\* _collect_numbered_headers
CollectNumberedHeaders(lns) == NumberedFrom(lns, 1, {})

\* the key of the last entry of the search space with a contained term
ContainedKeyLast(space, lt) ==
  LET hits == {n \in 1..Len(space) :
                 \E m \in 1..Len(space[n].terms) : Contains(lt, Lower(space[n].terms[m]))}
  IN IF hits = {} THEN NoCanon
     ELSE space[CHOOSE n \in hits : \A o \in hits : o <= n].key

\* lines 166-170: the key of the first entry of the search space, in dict
\* order, one of whose terms, lower-cased, is contained in lt
ContainedKey(space, lt) ==
  LET hits == {n \in 1..Len(space) :
                 \E m \in 1..Len(space[n].terms) : Contains(lt, Lower(space[n].terms[m]))}
  IN IF hits = {} THEN NoCanon
     ELSE space[CHOOSE n \in hits : \A o \in hits : n <= o].key

\* line 187: the score from which a fuzzy match is accepted
FuzzyThreshold == 86

\* the key of the best result of the scorer, whatever its score
FuzzyKeyAnyScore(rapid, oracle, lt) ==
  IF rapid /\ lt \in DOMAIN oracle /\ oracle[lt] # <<>> THEN oracle[lt][1].canon ELSE NoCanon

\* lines 173-189: when fuzzy matching is installed, the key of the first
\* result of process.extract whose score is at least FuzzyThreshold. The
\* scorer is rapidfuzz's, so what it returns for a title is an input
\* (oracle): up to five results, best score first, each with the key
\* pool[idx][0] of its term. A title the oracle does not hold scores
\* below the threshold against every term.
FuzzyKey(rapid, oracle, lt) ==
  IF rapid /\ lt \in DOMAIN oracle
  THEN LET res == oracle[lt]
           hits == {k \in 1..Len(res) : res[k].score >= FuzzyThreshold}
       IN IF hits = {} THEN NoCanon
          ELSE res[CHOOSE k \in hits : \A o \in hits : k <= o].canon
  ELSE NoCanon

\* _map_title_to_canon
MapTitleToCanon(space, rapid, oracle, raw_title, num_hint) ==
  LET lt == Strip(Lower(raw_title))
  IN IF num_hint # "" /\ num_hint \in DOMAIN NUM_TO_CANON THEN NUM_TO_CANON[num_hint]
     ELSE LET c == ContainedKey(space, lt)
          IN IF c # NoCanon THEN c ELSE FuzzyKey(rapid, oracle, lt)

\* line 226 for every candidate: the candidate with the key it resolves to
ResolveCandidates(space, rapid, oracle, cands) ==
  [k \in 1..Len(cands) |->
     [idx |-> cands[k].idx, title |-> cands[k].title, num |-> cands[k].num,
      canon |-> MapTitleToCanon(space, rapid, oracle, cands[k].title, cands[k].num)]]

\* the keys of the sections of the calls made before
SeenCarried(calls) == UNION {DOMAIN calls[n].sections : n \in 1..Len(calls)}

\* line 223 (and line 142): seen starts as an empty set at every call,
\* whatever the calls made before
FreshSeen(calls) == {}

\* the loop of lines 225-230 with the last header of a key kept
RECURSIVE BestFromKeepLast(_, _, _)
BestFromKeepLast(res, k, seen) ==
  IF k > Len(res) THEN <<>>
  ELSE LET c == res[k]
           later == \E j \in (k + 1)..Len(res) : res[j].canon = c.canon
       IN IF c.canon = NoCanon \/ later
          THEN BestFromKeepLast(res, k + 1, seen)
          ELSE <<Header(c.idx, c.canon, c.title)>> \o BestFromKeepLast(res, k + 1, seen)

\* the loop of lines 225-230 over the resolved candidates from the k-th on,
\* with the keys seen so far
RECURSIVE BestFrom(_, _, _)
BestFrom(res, k, seen) ==
  IF k > Len(res) THEN <<>>
  ELSE LET c == res[k]
       IN IF c.canon = NoCanon \/ c.canon \in seen
          THEN BestFrom(res, k + 1, seen)
          ELSE <<Header(c.idx, c.canon, c.title)>>
                 \o BestFrom(res, k + 1, seen \cup {c.canon})

\* sorted(headers, key=lambda x: x[0])
SortByIdx(hs) ==
  LET idx == SortedSeq({hs[k].idx : k \in 1..Len(hs)})
  IN [j \in 1..Len(hs) |-> hs[CHOOSE k \in 1..Len(hs) : hs[k].idx = idx[j]]]

\* the number of numbered headers from which the numbered strategy is taken
MinNumberedHeaders == 8

(* ---------------------------- body slicing ---------------------------- *)
\* the slice of line 242 taken from the header's own line
BodyLinesFromHeader(lns, hdrs, j) ==
  LET start_i == hdrs[j].idx
      end_i == IF j + 1 <= Len(hdrs) THEN hdrs[j + 1].idx ELSE Len(lns)
  IN SubSeq(lns, start_i + 1, end_i)

\* lines 241-249 with every body running to the end of the document
BodyLinesToEnd(lns, hdrs, j) ==
  LET start_i == hdrs[j].idx
      raw == hdrs[j].title
      body == SubSeq(lns, start_i + 2, Len(lns))
      orig_line == lns[start_i + 1]
      tail == IF HasColon(orig_line) /\ StartsWith(Lower(orig_line), Lower(raw))
              THEN Strip(AfterColon(orig_line)) ELSE <<>>
  IN IF tail # <<>> THEN <<tail>> \o body ELSE body

\* lines 241-249 for the j-th header: the lines of its body
BodyLines(lns, hdrs, j) ==
  LET start_i == hdrs[j].idx
      raw == hdrs[j].title
      end_i == IF j + 1 <= Len(hdrs) THEN hdrs[j + 1].idx ELSE Len(lns)
      body == SubSeq(lns, start_i + 2, end_i)
      orig_line == lns[start_i + 1]
      tail == IF HasColon(orig_line) /\ StartsWith(Lower(orig_line), Lower(raw))
              THEN Strip(AfterColon(orig_line)) ELSE <<>>
  IN IF tail # <<>> THEN <<tail>> \o body ELSE body

Section(lns, hdrs, j) ==
  [title |-> hdrs[j].title,
   text |-> Strip(Join(<<"\n">>, BodyLines(lns, hdrs, j))),
   canon |-> hdrs[j].canon,
   source |-> "text",
   start |-> hdrs[j].idx]

\* sections[key] = value
DictSet(d, key, value) ==
  [k \in DOMAIN d \cup {key} |-> IF k = key THEN value ELSE d[k]]

EmptyDict == [k \in {} |-> 0]

\* the loop of lines 240-259 from the j-th header on
RECURSIVE SliceFrom(_, _, _, _)
SliceFrom(lns, hdrs, j, secs) ==
  IF j > Len(hdrs) THEN secs
  ELSE SliceFrom(lns, hdrs, j + 1,
                 DictSet(secs, hdrs[j].canon, Section(lns, hdrs, j)))

\* the title of the section returned when no header is found
OtherTitle == <<"uAE30", "uD0C0">>

(* ------------------------------ documents ----------------------------- *)
\* longest document of free lines
MaxLines == 2

\* the titles of the 16 sections, as a data sheet prints them
HeaderTitles ==
  <<Chars("Identification"), Chars("Hazards identification"), Chars("Composition"),
    Chars("First aid measures"), Chars("Fire fighting measures"),
    Chars("Accidental release measures"), Chars("Handling and storage"),
    Chars("Exposure controls"), Chars("Physical and chemical properties"),
    Chars("Stability and reactivity"), Chars("Toxicological information"),
    Chars("Ecological information"), Chars("Disposal considerations"),
    Chars("Transport information"), Chars("Regulatory information"),
    Chars("Other information")>>

NumChars ==
  <<Chars("1"), Chars("2"), Chars("3"), Chars("4"), Chars("5"), Chars("6"), Chars("7"),
    Chars("8"), Chars("9"), Chars("10"), Chars("11"), Chars("12"), Chars("13"),
    Chars("14"), Chars("15"), Chars("16")>>

\* header n as "n. title" (spaced) or "n.title" (tight)
HeaderStyles == {"spaced", "tight"}
HeaderLine(n, style) ==
  NumChars[n] \o (IF style = "spaced" THEN Chars(". ") ELSE Chars(".")) \o HeaderTitles[n]

\* the body injected after header n: one clean line (plain), or two lines
\* with indentation, a double space, a tab and a carriage return (ragged)
BodyStyles == {"plain", "ragged"}
BodyText(n, body) ==
  IF body = "plain" THEN Chars("text of section ") \o NumChars[n]
  ELSE Chars("  first  part ") \o NumChars[n] \o Chars("\n\tsecond part ") \o NumChars[n]
         \o Chars("\r")

\* a line put between two blocks of a numbered document
ExtraLines ==
  { Chars("2. Hazards again"),
    Chars("label elements"),
    Chars("KOSHA MSDS"),
    Chars("9.Physical data") }

\* the blocks (header, body) 1..n, with the extra line x after block p
\* (no extra line when p < 0)
NumberedBlocks(n, style, body, p, x) ==
  LET block(k) == <<HeaderLine(k, style), BodyText(k, body)>>
      F[k \in 0..n] ==
        (IF k = 0 THEN <<>> ELSE F[k - 1] \o block(k)) \o (IF k = p THEN <<x>> ELSE <<>>)
  IN F[n]

HeaderCounts == {7, 8, 16}
InsertAfter(n) == {0, 2, n}

NumberedDocs ==
  { Join(<<"\n">>, NumberedBlocks(n, st, b, -1, <<>>)) :
      n \in HeaderCounts, st \in HeaderStyles, b \in BodyStyles }
  \cup
  UNION { { Join(<<"\n">>, NumberedBlocks(n, st, b, p, x)) :
              p \in InsertAfter(n), x \in ExtraLines } :
          n \in HeaderCounts, st \in HeaderStyles, b \in BodyStyles }

\* the lines of the short documents
FreeLines ==
  { Chars("2. Hazards"),
    Chars("2. First aid: toxic"),
    Chars("Label elements: danger"),
    Chars("First aid"),
    Chars("  danger  zone"),
    Chars("hazrads") }

FreeDocs ==
  {<<>>} \cup
  { Join(<<"\n">>, ls) : ls \in UNION { [1..n -> FreeLines] : n \in 1..MaxLines } }

Docs == NumberedDocs \cup FreeDocs

\* what config/synonyms.yml may hold (no file: the empty sequence)
SynonymFiles ==
  { <<>>,
    <<[key |-> "hazards", terms |-> <<Chars("HAZARDS "), Chars("danger zone")>>]>>,
    <<[key |-> "2", terms |-> <<Chars("danger zone")>>]>> }

\* the titles the fuzzy scorer is asked about, and what process.extract
\* may return there (best score first): scores below the threshold, two
\* keys at the threshold, or two keys above it
FuzzyTitles == {Chars("hazrads")}
FuzzyVerdicts ==
  { <<[canon |-> "hazards", score |-> 85], [canon |-> "first_aid", score |-> 60]>>,
    <<[canon |-> "hazards", score |-> 86], [canon |-> "first_aid", score |-> 86]>>,
    <<[canon |-> "first_aid", score |-> 95], [canon |-> "hazards", score |-> 90]>> }

(* --------------------------- split_sections_auto ---------------------- *)
\* the module after its import (lines 19-53 and 101): the lexicon it got,
\* the search space built from it and from config/synonyms.yml, and
\* whether rapidfuzz is there, with what its scorer answers
ModuleState ==
  /\ lexicon_imported \in BOOLEAN
  /\ synonyms_file \in SynonymFiles
  /\ SEARCH_SPACE = BuildSearchSpace(lexicon_imported, synonyms_file)
  /\ has_rapid \in BOOLEAN
  /\ fuzzy_oracle \in
       IF has_rapid
       THEN [FuzzyTitles -> FuzzyVerdicts]
       ELSE {[t \in FuzzyTitles |-> <<>>]}

\* the process after the import of the module, at the first call, but for
\* the text passed
SegStart ==
  /\ spc = "start"
  /\ earlier = <<>>
  /\ ModuleState
  /\ lines = <<>>
  /\ template = ""
  /\ num_headers = <<>>
  /\ cand_canon = <<>>
  /\ headers = <<>>
  /\ strategy = "none"
  /\ sections = EmptyDict
  /\ logs = <<>>

SegInit == SegStart /\ full_text \in Docs

\* lines 209-216
ScanNumbered ==
  /\ spc = "start"
  /\ lines' = NormalizeLines(full_text)
  /\ template' = DetectTemplate(full_text)
  /\ num_headers' = CollectNumberedHeaders(lines')
  /\ spc' = "choose"
  /\ UNCHANGED <<earlier, lexicon_imported, synonyms_file, SEARCH_SPACE, has_rapid, fuzzy_oracle,
                 full_text, cand_canon, headers, strategy, sections, logs>>
  /\ UNCHANGED <<acqVars, visVars, auxVars>>

\* lines 217-219
AcceptNumbered ==
  /\ spc = "choose"
  /\ Len(num_headers) >= MinNumberedHeaders
  /\ headers' = SortByIdx(num_headers)
  /\ strategy' = "numbered"
  /\ logs' = Append(logs, [msg |-> "numbered headers", n |-> Len(num_headers)])
  /\ spc' = "slice"
  /\ UNCHANGED <<earlier, lexicon_imported, synonyms_file, SEARCH_SPACE, has_rapid, fuzzy_oracle,
                 full_text, lines, template, num_headers, cand_canon, sections>>
  /\ UNCHANGED <<acqVars, visVars, auxVars>>

\* lines 220-232
FuzzyStrategy ==
  /\ spc = "choose"
  /\ ~(Len(num_headers) >= MinNumberedHeaders)
  /\ cand_canon' = ResolveCandidates(SEARCH_SPACE, has_rapid, fuzzy_oracle,
                                      CollectHeaderCandidates(lines))
  /\ headers' = SortByIdx(BestFrom(cand_canon', 1, FreshSeen(earlier)))
  /\ logs' = Append(logs, [msg |-> "fuzzy/keyword headers", n |-> Len(headers')])
  /\ strategy' = "fuzzy"
  /\ spc' = "slice"
  /\ UNCHANGED <<earlier, lexicon_imported, synonyms_file, SEARCH_SPACE, has_rapid, fuzzy_oracle,
                 full_text, lines, template, num_headers, sections>>
  /\ UNCHANGED <<acqVars, visVars, auxVars>>

\* lines 234-236
\* the fallback section with its lines put on one line
OtherSectionOneLine(lns) == [title |-> OtherTitle, text |-> Join(<<" ">>, lns)]

\* line 236: the section returned when there is no header
OtherSection(lns) == [title |-> OtherTitle, text |-> Join(<<"\n">>, lns)]

NoHeaders ==
  /\ spc = "slice"
  /\ headers = <<>>
  /\ logs' = Append(logs, [msg |-> "no valid header, whole text returned as other", n |-> 0])
  /\ sections' = DictSet(EmptyDict, "other", OtherSection(lines))
  /\ spc' = "done"
  /\ UNCHANGED <<earlier, lexicon_imported, synonyms_file, SEARCH_SPACE, has_rapid, fuzzy_oracle,
                 full_text, lines, template, num_headers, cand_canon, headers, strategy>>
  /\ UNCHANGED <<acqVars, visVars, auxVars>>

\* lines 238-263
SliceSections ==
  /\ spc = "slice"
  /\ headers # <<>>
  /\ sections' = SliceFrom(lines, headers, 1, EmptyDict)
  /\ logs' = logs \o
       <<[msg |-> "template guess, final section count",
          n |-> Cardinality(DOMAIN sections')],
         [msg |-> "detection order", n |-> Len(headers)]>>
  /\ spc' = "done"
  /\ UNCHANGED <<earlier, lexicon_imported, synonyms_file, SEARCH_SPACE, has_rapid, fuzzy_oracle,
                 full_text, lines, template, num_headers, cand_canon, headers, strategy>>
  /\ UNCHANGED <<acqVars, visVars, auxVars>>

\* the bound on the calls of split_sections_auto made in one process
MaxCalls == 3

\* the texts passed when the function is called several times
RepeatDocs ==
  { Chars("Label elements: danger\nFirst aid"),
    Chars("hazrads"),
    Chars("  danger  zone\nFirst aid"),
    Join(<<"\n">>, NumberedBlocks(8, "spaced", "plain", -1, <<>>)) }

\* the next call of split_sections_auto in the same process: the locals
\* of lines 209-213 are new, the module state stays
CallAgain ==
  /\ spc = "done"
  /\ Len(earlier) + 1 < MaxCalls
  /\ earlier' = Append(earlier, [text |-> full_text, sections |-> sections,
                                  template |-> template, logs |-> logs,
                                  space |-> SEARCH_SPACE])
  /\ full_text' \in RepeatDocs
  /\ lines' = <<>>
  /\ template' = ""
  /\ num_headers' = <<>>
  /\ cand_canon' = <<>>
  /\ headers' = <<>>
  /\ strategy' = "none"
  /\ sections' = EmptyDict
  /\ logs' = <<>>
  /\ spc' = "start"
  /\ UNCHANGED <<lexicon_imported, synonyms_file, SEARCH_SPACE, has_rapid, fuzzy_oracle>>
  /\ UNCHANGED <<acqVars, visVars, auxVars>>

SegNext == ScanNumbered \/ AcceptNumbered \/ FuzzyStrategy \/ NoHeaders \/ SliceSections

(* --------------------------- _map_title_to_canon ---------------------- *)
\* titles a candidate may carry
Titles ==
  { Chars("Hazards identification"),
    Chars("First aid and label elements"),
    Chars("Transport of hazards"),
    Chars("First aid"),
    Chars("hazrads"),
    Chars("danger zone"),
    Chars("Appendix") }

\* number hints a candidate may carry: none, or the digits of its number
NumHints == {"", "2", "02", "17"}

\* the segmenter's own variables while only _map_title_to_canon is called
SegLocalsIdle ==
  /\ spc = "idle"
  /\ earlier = <<>>
  /\ full_text = <<>>
  /\ lines = <<>>
  /\ template = ""
  /\ num_headers = <<>>
  /\ cand_canon = <<>>
  /\ headers = <<>>
  /\ strategy = "none"
  /\ sections = EmptyDict
  /\ logs = <<>>

TitleInit ==
  /\ tpc = "call"
  /\ arg_title \in Titles
  /\ arg_hint \in NumHints
  /\ mapped = NoCanon

\* lines 163-164: a number hint that is a key of NUM_TO_CANON decides
ReturnByHint ==
  /\ tpc = "call"
  /\ arg_hint # "" /\ arg_hint \in DOMAIN NUM_TO_CANON
  /\ mapped' = MapTitleToCanon(SEARCH_SPACE, has_rapid, fuzzy_oracle, arg_title, arg_hint)
  /\ tpc' = "returned"
  /\ UNCHANGED <<arg_title, arg_hint>>
  /\ UNCHANGED <<acqVars, segVars, visVars, cleanVars, stripVars, docVars, ghsVars>>

\* lines 166-191: the title decides
ReturnByTitle ==
  /\ tpc = "call"
  /\ ~(arg_hint # "" /\ arg_hint \in DOMAIN NUM_TO_CANON)
  /\ mapped' = MapTitleToCanon(SEARCH_SPACE, has_rapid, fuzzy_oracle, arg_title, arg_hint)
  /\ tpc' = "returned"
  /\ UNCHANGED <<arg_title, arg_hint>>
  /\ UNCHANGED <<acqVars, segVars, visVars, cleanVars, stripVars, docVars, ghsVars>>

TitleNext == ReturnByHint \/ ReturnByTitle


(* ===================== utils/robust_pdf_text.py ======================= *)
\* Lengths and positions are whole numbers of tenths of a point.

\* a word of page.get_text("words"): its box and its text
Word(x0, y0, width, height, tk) ==
  [x0 |-> x0, y0 |-> y0, x1 |-> x0 + width, y1 |-> y0 + height, tk |-> tk]

\* int(x) for a position x >= 0: the whole points
IntPart(x) == x \div 10

\* _median: sorted(vals)[len(vals) // 2], or the default for no value
Median(vals, default) ==
  IF vals = <<>> THEN default
  ELSE LET n == Len(vals)
           below(v) == Cardinality({k \in 1..n : vals[k] < v})
           upto(v) == Cardinality({k \in 1..n : vals[k] <= v})
       IN CHOOSE v \in {vals[k] : k \in 1..n} : below(v) <= n \div 2 /\ n \div 2 < upto(v)

\* the default of _median in lines 44 and 71 (10.0 points)
MedianDefault == 100

\* lines 43-44 and 70-71: the median of the words' heights
MedianHeight(ws) == Median([k \in 1..Len(ws) |-> ws[k].y1 - ws[k].y0], MedianDefault)

\* round(n / d) of Python 3 for n >= 0, d > 0: to the nearest whole
\* number, a tie to the even one
RoundHalfEven(n, d) ==
  LET q == n \div d
      r == n % d
  IN IF 2 * r < d THEN q
     ELSE IF 2 * r > d THEN q + 1
     ELSE IF q % 2 = 0 THEN q ELSE q + 1

\* the factor of line 48: a gap is big when it exceeds 6 median heights
ColumnGapFactor == 6

\* line 53: at most two gaps are cut
MaxCuts == 2

\* lines 45-48: the gaps between consecutive whole-point left edges that
\* exceed ColumnGapFactor median heights (gap and edges in points)
BigGaps(ws) ==
  LET xs == SortedSeq({IntPart(ws[k].x0) : k \in 1..Len(ws)})
      h_med == MedianHeight(ws)
      gaps == [i \in 1..(Len(xs) - 1) |->
                 [gap |-> xs[i + 1] - xs[i], xL |-> xs[i], xR |-> xs[i + 1]]]
  IN {gaps[i] : i \in {j \in 1..(Len(xs) - 1) : 10 * gaps[j].gap > h_med * ColumnGapFactor}}

\* lines 51-56: twice the cut points (in points) of the MaxCuts biggest
\* gaps; big.sort(reverse=True) orders by gap, then by left edge
CutPoints(ws) ==
  LET big == BigGaps(ws)
      before(g, f) == g.gap > f.gap \/ (g.gap = f.gap /\ g.xL > f.xL)
      top == {g \in big : Cardinality({f \in big : before(f, g)}) < MaxCuts}
  IN {g.xL + g.xR : g \in top}

\* lines 59-62: the index of the column of a word
ColumnIndex(cuts, w) == Cardinality({c \in cuts : 2 * w.x0 > 10 * c})

\* _detect_columns
DetectColumns(ws) ==
  IF ws = <<>> THEN <<ws>>
  ELSE IF BigGaps(ws) = {} THEN <<ws>>
  ELSE LET cuts == CutPoints(ws)
           all == [c \in 1..(Cardinality(cuts) + 1) |->
                     SelectSeq(ws, LAMBDA w : ColumnIndex(cuts, w) = c - 1)]
           kept == SelectSeq(all, LAMBDA c : c # <<>>)
       IN IF kept = <<>> THEN <<ws>> ELSE kept

\* the order of Python's tuples of two numbers
TupleLess(a, b) == a[1] < b[1] \/ (a[1] = b[1] /\ a[2] < b[2])

\* list.sort(key=...): ascending, elements of equal key in their given
\* order; keys[i] is the key of s[i], a tuple of two numbers
SortByKey(s, keys) ==
  LET n == Len(s)
      pos(i) == Cardinality({j \in 1..n :
                   TupleLess(keys[j], keys[i]) \/ (keys[j] = keys[i] /\ j < i)}) + 1
  IN [p \in 1..n |-> s[CHOOSE i \in 1..n : pos(i) = p]]

\* the row key with a tie rounded up
RowKeyHalfUp(w, h_med) ==
  LET y_tol100 == IF 6 * h_med > 300 THEN 6 * h_med ELSE 300
  IN (20 * w.y0 + y_tol100) \div (2 * y_tol100)

\* lines 72, 77 and 93: round(w[1] / y_tol) with y_tol = max(3.0, h_med * 0.6)
RowKey(w, h_med) ==
  LET y_tol100 == IF 6 * h_med > 300 THEN 6 * h_med ELSE 300
  IN RoundHalfEven(10 * w.y0, y_tol100)

\* lines 84-91 from the k-th token of the buffer: a blank before a token
\* that starts more than gap_thr = h_med * 0.3 after the end of the last
RECURSIVE LineFrom(_, _, _)
LineFrom(buf, k, h_med) ==
  IF k > Len(buf) THEN <<>>
  ELSE (IF k > 1 /\ 10 * (buf[k].x0 - buf[k - 1].x1) > 3 * h_med THEN <<" ">> ELSE <<>>)
         \o buf[k].tk \o LineFrom(buf, k + 1, h_med)

\* flush (lines 80-91): the line of the buffered row
FlushLine(buf, h_med) ==
  LineFrom(SortByKey(buf, [k \in 1..Len(buf) |-> <<buf[k].x0, 0>>]), 1, h_med)

\* the line of the first word of the column only
ColumnLinesFirstWord(col, h_med) == <<FlushLine(<<col[1]>>, h_med)>>

\* lines 77-100 for one column: its lines
ColumnLines(col, h_med) ==
  LET sorted == SortByKey(col, [k \in 1..Len(col) |-> <<RowKey(col[k], h_med), col[k].x0>>])
      starts == SortedSeq({k \in 1..Len(sorted) :
                    k = 1 \/ RowKey(sorted[k], h_med) # RowKey(sorted[k - 1], h_med)})
      row(j) == SubSeq(sorted, starts[j],
                       IF j < Len(starts) THEN starts[j + 1] - 1 ELSE Len(sorted))
  IN [j \in 1..Len(starts) |-> FlushLine(row(j), h_med)]

(* ------------------------------- pages -------------------------------- *)
\* the bound on the number of words of a page
MaxWords == 3

\* the boxes of the words, as <<left edge, top edge, width, height>>:
\* in the row at the top a narrow and a wide word at the left margin and
\* narrow words 60.9, 75 and 150 points from it; a word 3 points lower
\* that starts 3.0 points after the narrow word ends; words 9 and 15
\* points down, the first one starting 3.1 points after the other ends;
\* and two words 4 points high
WordBoxes ==
  { <<0, 0, 120, 100>>, <<0, 0, 700, 100>>, <<609, 0, 120, 100>>,
    <<750, 0, 120, 100>>, <<1500, 0, 120, 100>>,
    <<150, 30, 120, 100>>,
    <<151, 90, 120, 100>>, <<0, 150, 120, 100>>,
    <<0, 45, 120, 40>>, <<130, 60, 120, 40>> }

WordTexts == <<"a", "b", "c", "d">>

(* --------------------------- _extract_by_words ------------------------ *)
VisInit ==
  /\ vpc = "start"
  /\ words \in
       UNION { { [k \in 1..n |-> Word(f[k][1], f[k][2], f[k][3], f[k][4], <<WordTexts[k]>>)] :
                   f \in [1..n -> WordBoxes] } : n \in 0..MaxWords }
  /\ cols = <<>>
  /\ cols_done = 0
  /\ lines_out = <<>>
  /\ vtext = <<>>

\* lines 68-69
ReturnNoWords ==
  /\ vpc = "start"
  /\ words = <<>>
  /\ vtext' = <<>>
  /\ vpc' = "done"
  /\ UNCHANGED <<words, cols, cols_done, lines_out>>
  /\ UNCHANGED <<acqVars, segVars, auxVars>>

\* lines 70-76: the call of _detect_columns
CallDetectColumns ==
  /\ vpc = "start"
  /\ words # <<>>
  /\ cols' = DetectColumns(words)
  /\ vpc' = "columns"
  /\ UNCHANGED <<words, cols_done, lines_out, vtext>>
  /\ UNCHANGED <<acqVars, segVars, auxVars>>

\* lines 77-101: one column, then the empty line that ends it
ExtractColumn ==
  /\ vpc = "columns"
  /\ cols_done < Len(cols)
  /\ lines_out' = lines_out \o ColumnLines(cols[cols_done + 1], MedianHeight(words))
                    \o << <<>> >>
  /\ cols_done' = cols_done + 1
  /\ UNCHANGED <<vpc, words, cols, vtext>>
  /\ UNCHANGED <<acqVars, segVars, auxVars>>

\* lines 102-103
JoinLines ==
  /\ vpc = "columns"
  /\ cols_done = Len(cols)
  /\ vtext' = Join(<<"\n">>, lines_out)
  /\ vpc' = "done"
  /\ UNCHANGED <<words, cols, cols_done, lines_out>>
  /\ UNCHANGED <<acqVars, segVars, auxVars>>

VisNext == ReturnNoWords \/ CallDetectColumns \/ ExtractColumn \/ JoinLines

(* --------------------------- specifications --------------------------- *)
(* ------------------------- cleaning a page text ------------------------ *)
\* the letters of [A-Za-z]
AsciiLetters == UpperSet \cup LowerSet

\* RE_HYPHEN_JOIN.sub(r"\1\2", s) from position k on: the matches are found
\* from left to right and do not overlap, so the letter that ends a match
\* cannot begin the next one
RECURSIVE HyphenJoinFrom(_, _)
HyphenJoinFrom(s, k) ==
  IF k > Len(s) THEN <<>>
  ELSE IF /\ k + 3 <= Len(s)
          /\ s[k] \in AsciiLetters
          /\ s[k + 1] = "-"
          /\ s[k + 2] = "\n"
          /\ s[k + 3] \in AsciiLetters
       THEN <<s[k], s[k + 3]>> \o HyphenJoinFrom(s, k + 4)
  ELSE <<s[k]>> \o HyphenJoinFrom(s, k + 1)

HyphenJoin(s) == HyphenJoinFrom(s, 1)

\* number of successive newlines of s from position k on
RECURSIVE NewlineRun(_, _)
NewlineRun(s, k) ==
  IF k <= Len(s) /\ s[k] = "\n" THEN 1 + NewlineRun(s, k + 1) ELSE 0

\* RE_MULTI_NL.sub("\n\n", s) from position k on
RECURSIVE CollapseNewlinesFrom(_, _)
CollapseNewlinesFrom(s, k) ==
  IF k > Len(s) THEN <<>>
  ELSE IF NewlineRun(s, k) >= 3
       THEN <<"\n", "\n">> \o CollapseNewlinesFrom(s, k + NewlineRun(s, k))
  ELSE <<s[k]>> \o CollapseNewlinesFrom(s, k + 1)

CollapseNewlines(s) == CollapseNewlinesFrom(s, 1)

\* _cleanup
Cleanup(text) ==
  IF text = <<>> THEN <<>>
  ELSE Strip(CollapseNewlines(CollapseBlanks(HyphenJoin(text))))

\* the pieces the texts given to _cleanup are made of
CleanFrags == { <<"a">>, <<"-", "\n">>, <<"\n">>, <<" ">>, <<"\t">> }

\* at most this many pieces in a text
MaxFrags == 5

CleanInit ==
  /\ cpc = "call"
  /\ c_text \in
       UNION { { Join(<<>>, f) : f \in [1..n -> CleanFrags] } : n \in 0..MaxFrags }
  /\ c_once = <<>>
  /\ c_twice = <<>>

\* _cleanup(text)
CleanOnce ==
  /\ cpc = "call"
  /\ c_once' = Cleanup(c_text)
  /\ cpc' = "once"
  /\ UNCHANGED <<c_text, c_twice>>
  /\ UNCHANGED <<acqVars, segVars, visVars, titleVars, stripVars, docVars, ghsVars>>

\* _cleanup applied to what it returned
CleanTwice ==
  /\ cpc = "once"
  /\ c_twice' = Cleanup(c_once)
  /\ cpc' = "done"
  /\ UNCHANGED <<c_text, c_once>>
  /\ UNCHANGED <<acqVars, segVars, visVars, titleVars, stripVars, docVars, ghsVars>>

CleanNext == CleanOnce \/ CleanTwice

(* --------------------- running headers and footers --------------------- *)
\* str.splitlines() of a text whose only line breaks are "\n"
SplitLines(s) ==
  IF s = <<>> THEN <<>>
  ELSE LET p == Split(s, "\n")
       IN IF p[Len(p)] = <<>> THEN SubSeq(p, 1, Len(p) - 1) ELSE p

\* a digit stands at position p of s
DigitAt(s, p) == p <= Len(s) /\ s[p] \in Digits

\* ^\s*page\s*\d+ matches z (re.I)
PageMarker(z) ==
  LET l == Lower(z)
      q == SkipWs(l, 1)
  IN /\ q + 3 <= Len(l)
     /\ SubSeq(l, q, q + 3) = Chars("page")
     /\ DigitAt(l, SkipWs(l, q + 4))

\* ^\s*\d+\s*/\s*\d+ matches z
PageOfMarker(z) ==
  LET q == SkipWs(z, 1)
      d == LeadingDigits(SubSeq(z, q, Len(z)))
      r == SkipWs(z, q + d)
  IN /\ d >= 1
     /\ r <= Len(z)
     /\ z[r] = "/"
     /\ DigitAt(z, SkipWs(z, r + 1))

\* revision is found in z (re.I)
RevisionWord(z) == Contains(Lower(z), Chars("revision"))

\* rev\.?\s*\d is found in z (re.I)
RevMarker(z) ==
  LET l == Lower(z)
  IN \E o \in 1..(Len(l) - 3) :
       /\ SubSeq(l, o, o + 2) = Chars("rev")
       /\ \/ DigitAt(l, SkipWs(l, o + 3))
          \/ l[o + 3] = "." /\ DigitAt(l, SkipWs(l, o + 4))

\* the re.search of line 33
HeaderFooterLike(z) ==
  PageMarker(z) \/ PageOfMarker(z) \/ RevisionWord(z) \/ RevMarker(z)

\* pages of at most this many lines are left as they are
ShortPageLines == 6

\* lines[:2] + lines[-2:]
HeadAndFoot(plines) ==
  SubSeq(plines, 1, 2) \o SubSeq(plines, Len(plines) - 1, Len(plines))

\* bad_tokens of the plines of a page, as a set
BadTokens(plines) ==
  LET hf == HeadAndFoot(plines)
  IN { Strip(hf[k]) : k \in { j \in 1..Len(hf) : HeaderFooterLike(hf[j]) } }

\* _strip_headers_footers
StripHeadersFooters(text) ==
  LET plines == SplitLines(text)
  IN IF Len(plines) <= ShortPageLines THEN text
     ELSE Join(<<"\n">>,
               SelectSeq(plines, LAMBDA ln : Strip(ln) \notin BadTokens(plines)))

\* the lines the pages given to _strip_headers_footers are made of
StripLines == { Chars("Page 1"), Chars("x"), Chars("1 / 2"), Chars("Rev.3") }

\* at most this many lines on a page
MaxPageLines == 7

StripInit ==
  /\ hpc = "call"
  /\ page_text \in
       UNION { { Join(<<"\n">>, f) : f \in [1..n -> StripLines] } : n \in 0..MaxPageLines }
  /\ kept_text = <<>>

\* lines 25-27: a page of at most six lines is returned as it is
ReturnShortPage ==
  /\ hpc = "call"
  /\ Len(SplitLines(page_text)) <= ShortPageLines
  /\ kept_text' = StripHeadersFooters(page_text)
  /\ hpc' = "done"
  /\ UNCHANGED page_text
  /\ UNCHANGED <<acqVars, segVars, visVars, titleVars, cleanVars, docVars, ghsVars>>

\* lines 28-37: the lines equal to a token found at the top or the bottom
\* are dropped
ReturnStripped ==
  /\ hpc = "call"
  /\ Len(SplitLines(page_text)) > ShortPageLines
  /\ kept_text' = StripHeadersFooters(page_text)
  /\ hpc' = "done"
  /\ UNCHANGED page_text
  /\ UNCHANGED <<acqVars, segVars, visVars, titleVars, cleanVars, docVars, ghsVars>>

StripNext == ReturnShortPage \/ ReturnStripped

(* ------------------------- the text of a file -------------------------- *)
\* what _extract_by_words returns for a page: nothing for a page without
\* words, else the lines of each column followed by one empty line
DocBodies ==
  { <<>>, Chars("a") \o <<"\n">>,
    Chars("a") \o <<"\n", "\n">> \o Chars("b") \o <<"\n">>,
    Chars("a b") \o <<"\n">> \o Chars("c") \o <<"\n">> }

\* at most this many pages in a file
MaxDocPages == 3

DocInit ==
  /\ dpc = "loop"
  /\ bodies \in UNION { [1..n -> DocBodies] : n \in 0..MaxDocPages }
  /\ max_pages \in 0..MaxDocPages
  /\ doc_parts = <<>>
  /\ doc_text = <<>>

\* line 133
PagesToRead ==
  IF max_pages # 0
  THEN (IF Len(bodies) < max_pages THEN Len(bodies) ELSE max_pages)
  ELSE Len(bodies)

\* lines 134-143: the next page is extracted, stripped and cleaned
DocPage ==
  /\ dpc = "loop"
  /\ Len(doc_parts) < PagesToRead
  /\ doc_parts' =
       Append(doc_parts, Cleanup(StripHeadersFooters(bodies[Len(doc_parts) + 1])))
  /\ UNCHANGED <<dpc, bodies, max_pages, doc_text>>
  /\ UNCHANGED <<acqVars, segVars, visVars, titleVars, cleanVars, stripVars, ghsVars>>

\* line 144
DocReturn ==
  /\ dpc = "loop"
  /\ Len(doc_parts) = PagesToRead
  /\ doc_text' = Strip(Join(<<"\n", "\n">>, doc_parts))
  /\ dpc' = "done"
  /\ UNCHANGED <<bodies, max_pages, doc_parts>>
  /\ UNCHANGED <<acqVars, segVars, visVars, titleVars, cleanVars, stripVars, ghsVars>>

DocNext == DocPage \/ DocReturn

(* ------------------------- GHS pictograms ------------------------------ *)
\* a set of H-codes, each as the text it is written with
Codes(S) == { Chars(c) : c \in S }

ORDER ==
  << "GHS01", "GHS02", "GHS03", "GHS04", "GHS05", "GHS06", "GHS07", "GHS08",
     "GHS09" >>

GHS01_EXPLODING_BOMB ==
  Codes({"H200", "H201", "H202", "H203", "H204", "H240", "H241"})
GHS02_FLAME ==
  Codes({"H220", "H221", "H224", "H225", "H226", "H228", "H231", "H232",
         "H250", "H251", "H252", "H242", "H261"})
GHS03_FLAME_OVER_CIRCLE == Codes({"H270", "H271", "H272"})
GHS04_GAS_CYLINDER == Codes({"H280", "H281"})
ACUTE_ORAL_1_3 == Codes({"H300", "H301"})
ACUTE_DERM_1_3 == Codes({"H310", "H311"})
ACUTE_INHAL_1_3 == Codes({"H330", "H331"})
ACUTE_ORAL_4 == Codes({"H302"})
ACUTE_DERM_4 == Codes({"H312"})
ACUTE_INHAL_4 == Codes({"H332"})
CORROSIVE_SKIN_EYE == Codes({"H314", "H318"})
CORROSIVE_METAL == Codes({"H290"})
IRRITATION_ONLY == Codes({"H315", "H319"})
SENSITIZATION_SKIN == Codes({"H317"})
SENSITIZATION_RESP == Codes({"H334"})
STOT_SEVERE == Codes({"H370", "H371", "H372", "H373"})
STOT_SE3 == Codes({"H335", "H336"})
ASPIRATION == Codes({"H304"})
ENV_ACUTE_CHRONIC == Codes({"H400", "H410", "H411"})
ENV_CHRONIC3 == Codes({"H412"})

\* BASE_TRIGGERS
BASE_TRIGGERS ==
  [p \in {ORDER[k] : k \in 1..Len(ORDER)} |->
     CASE p = "GHS01" -> GHS01_EXPLODING_BOMB
       [] p = "GHS02" -> GHS02_FLAME
       [] p = "GHS03" -> GHS03_FLAME_OVER_CIRCLE
       [] p = "GHS04" -> GHS04_GAS_CYLINDER
       [] p = "GHS05" -> CORROSIVE_SKIN_EYE \cup CORROSIVE_METAL
       [] p = "GHS06" -> ACUTE_ORAL_1_3 \cup ACUTE_DERM_1_3 \cup ACUTE_INHAL_1_3
       [] p = "GHS07" -> IRRITATION_ONLY \cup SENSITIZATION_SKIN \cup STOT_SE3
                         \cup ACUTE_ORAL_4 \cup ACUTE_DERM_4 \cup ACUTE_INHAL_4
       [] p = "GHS08" -> SENSITIZATION_RESP \cup STOT_SEVERE \cup ASPIRATION
       [] p = "GHS09" -> ENV_ACUTE_CHRONIC]

\* _norm_set, for an iterable of strings
NormSet(hs) == { Upper(Strip(h)) : h \in { g \in hs : Strip(g) # <<>> } }

\* hset of map_hcodes_to_pictos
hset == NormSet(hcodes)

Routes == {"oral", "derm", "inhal"}

\* _route_presence
RoutePresence(hs) ==
  [r \in Routes |->
     CASE r = "oral" -> [cat13 |-> hs \cap ACUTE_ORAL_1_3 # {},
                         cat4 |-> hs \cap ACUTE_ORAL_4 # {}]
       [] r = "derm" -> [cat13 |-> hs \cap ACUTE_DERM_1_3 # {},
                         cat4 |-> hs \cap ACUTE_DERM_4 # {}]
       [] r = "inhal" -> [cat13 |-> hs \cap ACUTE_INHAL_1_3 # {},
                          cat4 |-> hs \cap ACUTE_INHAL_4 # {}]]

\* the items the lists given to map_hcodes_to_pictos are made of
RawCodes ==
  { Chars("H301"), Chars("H302"), Chars("H311"), Chars("H312"),
    Chars("H331"), Chars(" h332 "), Chars("H314"), Chars("H319"),
    Chars("H317"), Chars("H290"), Chars("H225"), Chars("H304"),
    Chars("H412"), Chars(" ") }

\* at most this many different items in a list
MaxCodes == 4

GhsInit ==
  /\ gpc = "call"
  /\ hcodes \in { c \in SUBSET RawCodes : Cardinality(c) <= MaxCodes }
  /\ include_env_h412 \in BOOLEAN
  /\ pictos = {}
  /\ pic_list = <<>>

\* lines 90-105: the pictograms the codes trigger
IncludeTriggers ==
  /\ gpc = "call"
  /\ pictos' =
       { p \in {"GHS01", "GHS02", "GHS03", "GHS04", "GHS05"} :
           hset \cap BASE_TRIGGERS[p] # {} }
       \cup { p \in {"GHS06", "GHS07", "GHS08"} : hset \cap BASE_TRIGGERS[p] # {} }
       \cup { p \in {"GHS09"} :
                \/ hset \cap ENV_ACUTE_CHRONIC # {}
                \/ include_env_h412 /\ hset \cap ENV_CHRONIC3 # {} }
  /\ gpc' = "acute"
  /\ UNCHANGED <<hcodes, include_env_h412, pic_list>>
  /\ UNCHANGED <<acqVars, segVars, visVars, titleVars, cleanVars, stripVars, docVars>>

\* line 114
Keep07Strong ==
  hset \cap (SENSITIZATION_SKIN \cup STOT_SE3 \cup IRRITATION_ONLY) # {}

\* line 117, reached when keep07_strong is false
Cat4Only ==
  ~Keep07Strong /\ \E r \in Routes : RoutePresence(hset)[r].cat4

\* line 119
SameRouteSuppressed ==
  \E r \in Routes : RoutePresence(hset)[r].cat13 /\ RoutePresence(hset)[r].cat4

\* lines 110-121: acute toxicity of category 1-3 before category 4
AcutePrecedence ==
  /\ gpc = "acute"
  /\ pictos' =
       IF "GHS07" \in pictos /\ Cat4Only /\ SameRouteSuppressed
       THEN pictos \ {"GHS07"}
       ELSE pictos
  /\ gpc' = "corrosion"
  /\ UNCHANGED <<hcodes, include_env_h412, pic_list>>
  /\ UNCHANGED <<acqVars, segVars, visVars, titleVars, cleanVars, stripVars, docVars>>

\* lines 124-130: corrosion before irritation
CorrosionPrecedence ==
  /\ gpc = "corrosion"
  /\ pictos' =
       IF /\ "GHS05" \in pictos /\ "GHS07" \in pictos
          /\ hset \cap CORROSIVE_SKIN_EYE # {}
          /\ hset \cap IRRITATION_ONLY # {}
          /\ hset \cap (SENSITIZATION_SKIN \cup STOT_SE3) = {}
       THEN pictos \ {"GHS07"}
       ELSE pictos
  /\ gpc' = "order"
  /\ UNCHANGED <<hcodes, include_env_h412, pic_list>>
  /\ UNCHANGED <<acqVars, segVars, visVars, titleVars, cleanVars, stripVars, docVars>>

\* lines 133-135
ReturnPictograms ==
  /\ gpc = "order"
  /\ pic_list' = SelectSeq(ORDER, LAMBDA p : p \in pictos)
  /\ gpc' = "done"
  /\ UNCHANGED <<hcodes, include_env_h412, pictos>>
  /\ UNCHANGED <<acqVars, segVars, visVars, titleVars, cleanVars, stripVars, docVars>>

GhsNext ==
  IncludeTriggers \/ AcutePrecedence \/ CorrosionPrecedence \/ ReturnPictograms

vars == <<acqVars, segVars, visVars, auxVars>>

\* _map_title_to_canon while it is not called
TitleIdle ==
  /\ tpc = "idle"
  /\ arg_title = <<>>
  /\ arg_hint = ""
  /\ mapped = NoCanon

\* _cleanup while it is not called
CleanIdle ==
  /\ cpc = "idle"
  /\ c_text = <<>>
  /\ c_once = <<>>
  /\ c_twice = <<>>

\* _strip_headers_footers while it is not called
StripIdle ==
  /\ hpc = "idle"
  /\ page_text = <<>>
  /\ kept_text = <<>>

\* extract_pdf_text_visual_order while it is not called
DocIdle ==
  /\ dpc = "idle"
  /\ bodies = <<>>
  /\ max_pages = 0
  /\ doc_parts = <<>>
  /\ doc_text = <<>>

\* map_hcodes_to_pictos while it is not called
GhsIdle ==
  /\ gpc = "idle"
  /\ hcodes = {}
  /\ include_env_h412 = FALSE
  /\ pictos = {}
  /\ pic_list = <<>>

\* the functions called on their own, while none of them is
AuxIdle == TitleIdle /\ CleanIdle /\ StripIdle /\ DocIdle /\ GhsIdle

\* the segmenter's variables while only acquisition runs
SegIdle ==
  /\ spc = "idle"
  /\ earlier = <<>>
  /\ lexicon_imported = TRUE
  /\ synonyms_file = <<>>
  /\ SEARCH_SPACE = <<>>
  /\ has_rapid = FALSE
  /\ fuzzy_oracle = <<>>
  /\ full_text = <<>>
  /\ lines = <<>>
  /\ template = ""
  /\ num_headers = <<>>
  /\ cand_canon = <<>>
  /\ headers = <<>>
  /\ strategy = "none"
  /\ sections = EmptyDict
  /\ logs = <<>>

\* the acquirer's variables while only segmentation runs
AcqIdle ==
  /\ apc = "idle"
  /\ cv2_ok = TRUE
  /\ digital_texts = <<>>
  /\ images = <<>>
  /\ renderer = "none"
  /\ pages = <<>>
  /\ ocr_calls = <<>>
  /\ merged_text = <<>>
  /\ final_logs = <<>>

\* the reconstructor's variables while it does not run
VisIdle ==
  /\ vpc = "idle"
  /\ words = <<>>
  /\ cols = <<>>
  /\ cols_done = 0
  /\ lines_out = <<>>
  /\ vtext = <<>>

InitAcq == SegIdle /\ VisIdle /\ AuxIdle /\ AcqInit
InitSeg == AcqIdle /\ VisIdle /\ AuxIdle /\ SegInit
InitRepeat == AcqIdle /\ VisIdle /\ AuxIdle /\ SegStart /\ full_text \in RepeatDocs
InitVis == AcqIdle /\ SegIdle /\ AuxIdle /\ VisInit
InitTitle ==
  /\ AcqIdle /\ VisIdle /\ CleanIdle /\ StripIdle /\ DocIdle /\ GhsIdle
  /\ SegLocalsIdle /\ ModuleState /\ TitleInit

\* one call of extract_pdf_text_auto
SpecAcq == InitAcq /\ [][AcqNext]_vars

\* one call of split_sections_auto in a freshly started process
SpecSeg == InitSeg /\ [][SegNext]_vars

\* up to MaxCalls calls of split_sections_auto in one process
SpecRepeat == InitRepeat /\ [][SegNext \/ CallAgain]_vars

\* one call of _extract_by_words on one page
SpecVis == InitVis /\ [][VisNext]_vars

\* one call of _map_title_to_canon in a freshly started process
SpecTitle == InitTitle /\ [][TitleNext]_vars

InitClean ==
  /\ AcqIdle /\ SegIdle /\ VisIdle
  /\ TitleIdle /\ StripIdle /\ DocIdle /\ GhsIdle
  /\ CleanInit

SpecClean == InitClean /\ [][CleanNext]_vars

InitStrip ==
  /\ AcqIdle /\ SegIdle /\ VisIdle
  /\ TitleIdle /\ CleanIdle /\ DocIdle /\ GhsIdle
  /\ StripInit

SpecStrip == InitStrip /\ [][StripNext]_vars

InitDoc ==
  /\ AcqIdle /\ SegIdle /\ VisIdle
  /\ TitleIdle /\ CleanIdle /\ StripIdle /\ GhsIdle
  /\ DocInit

SpecDoc == InitDoc /\ [][DocNext]_vars

InitGhs ==
  /\ AcqIdle /\ SegIdle /\ VisIdle
  /\ TitleIdle /\ CleanIdle /\ StripIdle /\ DocIdle
  /\ GhsInit

SpecGhs == InitGhs /\ [][GhsNext]_vars

(* ---------------- properties of extract_pdf_text_auto ----------------- *)

\* the _ocr_pil invocations made for page i (0-based), in call order
CallsFor(i) == SelectSeq(ocr_calls, LAMBDA c : c.page = i)

TrimmedLen(s) == Len(Strip(s))

\* C1: a returned ExtractResult holds exactly one PageResult per input page
\* (the k-th result is the one of page k-1), each with source digital or
\* ocr and a non-empty attempts list.
C1_OnePageResultPerPage ==
  apc = "returned" =>
    /\ Len(pages) = NumPages
    /\ \A k \in 1..NumPages :
         /\ pages[k].page_index = k - 1
         /\ pages[k].source \in {"digital", "ocr"}
         /\ Len(pages[k].attempts) >= 1

C1_Witness ==
  /\ apc = "returned"
  /\ NumPages >= 2
  /\ \E j, k \in 1..NumPages : pages[j].source = "digital" /\ pages[k].source = "ocr"

\* C2: a page whose native text has a trimmed length of at least 40 gets
\* source digital, scanned_guess false, attempts exactly <<"digital ok">>,
\* its native text as text, and the OCR engine is never called for it.
C2_DigitalAccepted ==
  \A k \in 1..NumPages :
    TrimmedLen(digital_texts[k]) >= 40 =>
      /\ CallsFor(k - 1) = <<>>
      /\ k <= Len(pages) =>
           /\ pages[k].source = "digital"
           /\ pages[k].is_scanned_guess = FALSE
           /\ pages[k].attempts = <<"digital ok">>
           /\ pages[k].text = digital_texts[k]

C2_Witness ==
  /\ apc = "returned"
  /\ \E k \in 1..NumPages :
       /\ TrimmedLen(digital_texts[k]) = 40
       /\ pages[k].source = "digital"
  /\ ocr_calls # <<>>

\* C3: for a page whose trimmed native text is shorter than 40 the OCR
\* engine is called at most twice; once the page has its result it was
\* called once or twice, twice exactly when the first output's trimmed
\* length is below 10, the second call uses another segmentation mode on
\* the preprocessed image, and len(attempts) is the number of calls.
C3_TwoRungLadder ==
  \A k \in 1..NumPages :
    TrimmedLen(digital_texts[k]) < 40 =>
      LET calls == CallsFor(k - 1) IN
      /\ Len(calls) <= 2
      /\ Len(calls) = 2 =>
           /\ ~calls[1].out.raised
           /\ TrimmedLen(calls[1].out.text) < 10
           /\ calls[2].psm # calls[1].psm
           /\ calls[2].preprocessed /\ ~calls[1].preprocessed
      /\ k <= Len(pages) =>
           /\ Len(calls) \in {1, 2}
           /\ (Len(calls) = 2) <=> (TrimmedLen(calls[1].out.text) < 10)
           /\ Len(pages[k].attempts) = Len(calls)

C3_Witness ==
  /\ apc = "returned"
  /\ \E j, k \in 1..NumPages :
       /\ Len(CallsFor(j - 1)) = 1 /\ Len(pages[j].attempts) = 1
       /\ Len(CallsFor(k - 1)) = 2 /\ Len(pages[k].attempts) = 2

ExpectedText(k) ==
  IF TrimmedLen(digital_texts[k]) >= 40 THEN digital_texts[k]
  ELSE LET calls == CallsFor(k - 1) IN Strip(calls[Len(calls)].out.text)

\* offset in merged_text at which page k's text starts
RECURSIVE MergedOffset(_)
MergedOffset(k) == IF k = 1 THEN 0 ELSE MergedOffset(k - 1) + Len(ExpectedText(k - 1)) + 2

\* C5: pages is in page-index order and merged_text is the pages' texts in
\* that order, each pair separated by "\n\n", nothing omitted, repeated
\* or reordered.
C5_MergedInPageOrder ==
  apc = "returned" =>
    /\ \A k \in 1..Len(pages) :
         /\ pages[k].page_index = k - 1
         /\ pages[k].text = ExpectedText(k)
         /\ SubSeq(merged_text, MergedOffset(k) + 1, MergedOffset(k) + Len(ExpectedText(k)))
              = ExpectedText(k)
         /\ k < Len(pages) =>
              SubSeq(merged_text, MergedOffset(k + 1) - 1, MergedOffset(k + 1)) = <<"\n", "\n">>
    /\ Len(merged_text) = MergedOffset(NumPages) + Len(ExpectedText(NumPages))

C5_Witness ==
  /\ apc = "returned"
  /\ NumPages >= 2
  /\ pages[1].text # pages[2].text
  /\ pages[1].text # <<>> /\ pages[2].text # <<>>

(* ----------------- properties of split_sections_auto ------------------ *)

CanonKeySet == {CanonKeys[k] : k \in 1..16}

\* C6 (as claimed): every key of the returned sections mapping is one of
\* the 16 canonical keys, whatever the text and the synonym file.
C6_OnlyCanonicalKeys ==
  spc = "done" => DOMAIN sections \subseteq CanonKeySet

\* the lines that resolve to a canonical key under the strategy that was
\* taken, in document order: the numbered lines whose number is in the
\* table, or the candidates the lexicon or the scorer gave a key
NumberedResolved ==
  LET all == [k \in 1..Len(lines) |->
                LET m == KoshaHeaderMatch(lines[k])
                IN [idx |-> k - 1, title |-> StripChars(m.title, {" ", ":"}),
                    canon |-> IF m.ok /\ m.num \in DOMAIN NUM_TO_CANON
                              THEN NUM_TO_CANON[m.num] ELSE NoCanon]]
  IN SelectSeq(all, LAMBDA r : r.canon # NoCanon)

Resolved ==
  IF strategy = "numbered" THEN NumberedResolved
  ELSE SelectSeq(cand_canon, LAMBDA r : r.canon # NoCanon)

\* 0-based index of the first line resolving to key c
FirstOf(res, c) ==
  LET S == {res[k].idx : k \in {j \in 1..Len(res) : res[j].canon = c}}
  IN CHOOSE x \in S : \A y \in S : x <= y

\* C7: the first header resolving to a key wins: the key has one section,
\* started and titled by that first line, whose body is the lines up to
\* the one before the next first header of another key; a later header of
\* the same key starts no section and lies inside a section's body.
C7_FirstHeaderWins ==
  (spc = "done" /\ headers # <<>>) =>
    LET res == Resolved
        keys == {res[k].canon : k \in 1..Len(res)}
        firsts == {FirstOf(res, c) : c \in keys}
    IN /\ DOMAIN sections = keys
       /\ \A k \in 1..Len(res) :
            LET c == res[k].canon
                first == FirstOf(res, c)
                after == {x \in firsts : x > first}
                next == IF after = {} THEN Len(lines)
                        ELSE CHOOSE x \in after : \A y \in after : x <= y
                body == SubSeq(lines, first + 2, next)
                hline == lines[first + 1]
            IN IF res[k].idx = first
               THEN /\ sections[c].start = first
                    /\ sections[c].title = res[k].title
                    /\ \/ sections[c].text = Strip(Join(<<"\n">>, body))
                       \/ /\ HasColon(hline)
                          /\ sections[c].text =
                               Strip(Join(<<"\n">>, <<Strip(AfterColon(hline))>> \o body))
               ELSE /\ \A d \in DOMAIN sections : sections[d].start # res[k].idx
                    /\ \E x \in firsts :
                         /\ x < res[k].idx
                         /\ \A y \in firsts : y > x => res[k].idx < y

C7_Witness ==
  /\ spc = "done"
  /\ strategy = "fuzzy"
  /\ \E j, k \in 1..Len(cand_canon) :
       /\ j < k
       /\ cand_canon[j].canon = "hazards" /\ cand_canon[k].canon = "hazards"
       /\ sections["hazards"].start = cand_canon[j].idx
       /\ \E d \in DOMAIN sections : sections[d].start > cand_canon[k].idx

\* the canonical keys the numbered pattern finds in the document
NumberedKeys ==
  {NUM_TO_CANON[KoshaHeaderMatch(lines[k]).num] :
     k \in {j \in 1..Len(lines) : KoshaHeaderMatch(lines[j]).num \in DOMAIN NUM_TO_CANON}}

\* C8: the numbered strategy supplies the headers exactly when it finds
\* at least 8 distinct canonical keys, and then every header line has the
\* numbered form; otherwise the fuzzy/keyword strategy supplies them.
C8_StrategyPriority ==
  spc \in {"slice", "done"} =>
    /\ strategy = "numbered" <=> Cardinality(NumberedKeys) >= 8
    /\ strategy = "fuzzy" <=> Cardinality(NumberedKeys) < 8
    /\ strategy = "numbered" =>
         /\ cand_canon = <<>>
         /\ \A k \in 1..Len(headers) : KoshaHeaderMatch(lines[headers[k].idx + 1]).ok
    /\ strategy = "fuzzy" =>
         \A k \in 1..Len(headers) :
           \E j \in 1..Len(cand_canon) :
             cand_canon[j].idx = headers[k].idx /\ cand_canon[j].canon = headers[k].canon

C8_Witness ==
  /\ spc = "done"
  /\ strategy = "numbered"
  /\ Cardinality(NumberedKeys) = 8
  /\ \E k \in 1..Len(lines) :
       /\ lines[k] = Chars("label elements")
       /\ \A d \in DOMAIN sections : sections[d].start # k - 1

\* the text carries a KOSHA branding marker
Branded == Contains(Upper(full_text), Chars("KOSHA")) \/ Contains(full_text, KoshaAgency)

\* C9 (as claimed): the template guess is KOSHA whenever the numbered
\* strategy is accepted, VENDOR whenever the fuzzy/keyword strategy
\* supplies the headers and the text has no branding marker, and KOSHA
\* with a branding marker.
C9_TemplateFollowsStrategy ==
  spc = "done" =>
    /\ strategy = "numbered" => template = "KOSHA"
    /\ (strategy = "fuzzy" /\ ~Branded) => template = "VENDOR"
    /\ Branded => template = "KOSHA"

\* the documents of the 16 numbered headers in order, each followed by
\* its body and nothing else
RoundTripDoc ==
  [st \in HeaderStyles, b \in BodyStyles |->
     Join(<<"\n">>, NumberedBlocks(16, st, b, -1, <<>>))]

\* C10 (as claimed): for such a document there are 16 sections, header n
\* is stored under the n-th canonical key, and each text is the injected
\* body, byte for byte apart from the whitespace around it.
C10_RoundTripByteForByte ==
  \A st \in HeaderStyles, b \in BodyStyles :
    (spc = "done" /\ Len(lines) >= 32 /\ full_text = RoundTripDoc[st, b]) =>
      /\ DOMAIN sections = CanonKeySet
      /\ \A n \in 1..16 :
           /\ sections[CanonKeys[n]].title = HeaderTitles[n]
           /\ sections[CanonKeys[n]].text = Strip(BodyText(n, b))

\* C10 (amended): ... each text is the injected body with its carriage
\* returns removed, every line trimmed, every run of spaces and tabs made
\* one space, and the whole trimmed.
C10_RoundTripNormalized ==
  \A st \in HeaderStyles, b \in BodyStyles :
    (spc = "done" /\ Len(lines) >= 32 /\ full_text = RoundTripDoc[st, b]) =>
      /\ DOMAIN sections = CanonKeySet
      /\ \A n \in 1..16 :
           /\ sections[CanonKeys[n]].title = HeaderTitles[n]
           /\ n < 16 => sections[CanonKeys[n]].start < sections[CanonKeys[n + 1]].start
           /\ sections[CanonKeys[n]].text = Strip(Join(<<"\n">>, NormalizeLines(BodyText(n, b))))

C10_Witness ==
  /\ spc = "done"
  /\ full_text = RoundTripDoc["spaced", "ragged"]
  /\ Cardinality(DOMAIN sections) = 16
  /\ sections["hazards"].text # Strip(BodyText(2, "ragged"))


\* the characters of a text that are neither blanks nor carriage returns
Inked(s) == SelectSeq(s, LAMBDA c : c \notin {" ", "\t", "\r"})

NoHeaderLog == [msg |-> "no valid header, whole text returned as other", n |-> 0]

\* C11 (as claimed): when no header is accepted the result is one section
\* under the key "unclassified" whose text is the entire input text, with
\* a log entry saying that no header was found.
C11_UnclassifiedSentinel ==
  (spc = "done" /\ headers = <<>>) =>
    /\ DOMAIN sections = {"unclassified"}
    /\ \A k \in DOMAIN sections : sections[k].text = full_text
    /\ \E n \in 1..Len(logs) : logs[n] = NoHeaderLog

\* C11 (amended): when no header is accepted (the empty text included) the
\* result is one section under the canonical key "other", with the fixed
\* fallback title, whose text is the input after line normalisation (its
\* characters other than blanks and carriage returns are those of the
\* input, in order), and the last log entry says that no header was found;
\* with a header there is no such entry.
C11_OtherFallback ==
  spc = "done" =>
    IF headers = <<>>
    THEN /\ DOMAIN sections = {"other"}
         /\ DOMAIN sections["other"] = {"title", "text"}
         /\ sections["other"].title = OtherTitle
         /\ sections["other"].text = Join(<<"\n">>, NormalizeLines(full_text))
         /\ Inked(sections["other"].text) = Inked(full_text)
         /\ logs[Len(logs)] = NoHeaderLog
    ELSE \A n \in 1..Len(logs) : logs[n] # NoHeaderLog

C11_Witness ==
  /\ spc = "done"
  /\ headers = <<>>
  /\ strategy = "fuzzy"
  /\ Len(lines) = 2
  /\ sections["other"].text # full_text


\* 0-based indices of the lines strictly between the j-th accepted header
\* and the next one (or the end of the document)
Between(j) ==
  {i \in 0..(Len(lines) - 1) :
     /\ i > headers[j].idx
     /\ i < (IF j < Len(headers) THEN headers[j + 1].idx ELSE Len(lines))}

\* the lines of Between(j), in order
BetweenLines(j) ==
  SubSeq(lines, headers[j].idx + 2,
         IF j < Len(headers) THEN headers[j + 1].idx ELSE Len(lines))

\* C12 (as claimed): the body of every accepted header is exactly the
\* lines strictly between its line and the next accepted header's line or
\* the end of the document, so nothing of the header line is in it; two
\* bodies share no line.
C12_BodyStrictlyBetween ==
  (spc = "done" /\ headers # <<>>) =>
    /\ \A j \in 1..Len(headers) :
         sections[headers[j].canon].text = Strip(Join(<<"\n">>, BetweenLines(j)))
    /\ \A j, k \in 1..Len(headers) : j # k => Between(j) \cap Between(k) = {}

\* C12 (amended): the body of every accepted header is the lines strictly
\* between its line and the next accepted header's line or the end of the
\* document, preceded by the fragment after the first colon of the header
\* line when that line has a colon, starts with the header's title and
\* the fragment is not empty; the text is these joined by line breaks and
\* trimmed. Two bodies share no line, no header line is among the lines of
\* a body, and every line below the first header is a header line or in
\* exactly one body.
C12_BodySlicing ==
  (spc = "done" /\ headers # <<>>) =>
    /\ \A j \in 1..Len(headers) :
         LET hline == lines[headers[j].idx + 1]
             frag == IF HasColon(hline) THEN Strip(AfterColon(hline)) ELSE <<>>
             pre == IF frag # <<>> /\ StartsWith(Lower(hline), Lower(headers[j].title))
                    THEN <<frag>> ELSE <<>>
         IN /\ sections[headers[j].canon].text = Strip(Join(<<"\n">>, pre \o BetweenLines(j)))
            /\ sections[headers[j].canon].start = headers[j].idx
            /\ \A k \in 1..Len(headers) : headers[k].idx \notin Between(j)
    /\ \A j, k \in 1..Len(headers) : j # k => Between(j) \cap Between(k) = {}
    /\ \A i \in (headers[1].idx)..(Len(lines) - 1) :
         \/ \E j \in 1..Len(headers) : headers[j].idx = i
         \/ \E j \in 1..Len(headers) : i \in Between(j)

C12_Witness ==
  /\ spc = "done"
  /\ Len(headers) = 2
  /\ lines[headers[1].idx + 1] = Chars("Label elements: danger")
  /\ sections[headers[1].canon].text = Chars("danger")
  /\ sections[headers[2].canon].text = <<>>


\* the phrases the merged lexicon holds for a key
TermsOf(space, key) ==
  LET S == {n \in 1..Len(space) : space[n].key = key}
  IN IF S = {} THEN <<>> ELSE space[CHOOSE n \in S : TRUE].terms

\* C13 (as claimed): an override entry under a canonical key has its
\* phrases in that key's phrases of the merged lexicon, after the default
\* ones, and a candidate title containing such a phrase resolves to the
\* key; an entry under any other key adds no key to the lexicon.
C13_OverrideMerged ==
  /\ KeysOf(SEARCH_SPACE) = CanonKeySet
  /\ \A n \in 1..Len(synonyms_file) :
       LET e == synonyms_file[n]
       IN e.key \in CanonKeySet =>
            \A m \in 1..Len(e.terms) :
              /\ \E j \in 1..Len(TermsOf(SEARCH_SPACE, e.key)) :
                   Lower(Strip(TermsOf(SEARCH_SPACE, e.key)[j])) = Lower(Strip(e.terms[m]))
              /\ (spc = "done" /\ strategy = "fuzzy") =>
                   \A k \in 1..Len(cand_canon) :
                     (cand_canon[k].num = "" /\
                      Contains(Lower(cand_canon[k].title), Lower(e.terms[m])))
                       => cand_canon[k].canon = e.key


(* ----------------- more on extract_pdf_text_auto ---------------------- *)

\* C14 (as claimed): without the image-preprocessing library acquisition
\* does not raise; the second OCR attempt of a page runs on the raster as
\* rendered, and every page still gets its PageResult.
C14_NoPreprocessingDegrades ==
  ~cv2_ok =>
    /\ apc # "import_error"
    /\ \A n \in 1..Len(ocr_calls) : ~ocr_calls[n].preprocessed
    /\ apc = "returned" => Len(pages) = NumPages

\* C20 (as claimed): a page has a raster image only once its native text
\* was found to be under the 40-character threshold, so nothing is
\* rendered for a document of pages with enough native text, and a
\* failure of rendering does not make acquisition fail.
C20_RenderOnlyScannedPages ==
  /\ \A k \in 1..Len(images) : ~has_enough_text(digital_texts[k], MinDigitalLen)
  /\ renderer = "failed" => apc # "raised"

\* what page k's own data (its native text and the outcomes of the OCR
\* calls on its image) say its PageResult is
LocalResult(k) ==
  LET calls == CallsFor(k - 1)
  IN IF TrimmedLen(digital_texts[k]) >= 40
     THEN [page_index |-> k - 1, source |-> "digital", text |-> digital_texts[k],
           is_scanned_guess |-> FALSE, attempts |-> <<"digital ok">>]
     ELSE [page_index |-> k - 1, source |-> "ocr",
           text |-> Strip(calls[Len(calls)].out.text),
           is_scanned_guess |-> TRUE,
           attempts |-> IF Len(calls) = 1 THEN <<AttemptOcr1>>
                        ELSE <<AttemptOcr1, AttemptOcr2>>]

C19_LastAttemptWins ==
  \A k \in 1..Len(pages) :
    pages[k].source = "ocr" =>
      LET calls == CallsFor(k - 1)
      IN /\ Len(calls) \in {1, 2}
         /\ pages[k].text = Strip(calls[Len(calls)].out.text)
         /\ Len(calls) = 2 => pages[k].text = Strip(calls[2].out.text)

C19_Witness ==
  /\ apc = "returned"
  /\ pages[1].source = "ocr"
  /\ Len(CallsFor(0)) = 2
  /\ Strip(CallsFor(0)[1].out.text) # <<>>
  /\ CallsFor(0)[2].out.text = <<>>
  /\ pages[1].text = <<>>

(* ------------- repeated calls of split_sections_auto ------------------ *)

WordIdx == 1..Len(words)

\* the blank space between the words of L and the words to their right:
\* from the rightmost right edge of L to the leftmost left edge of the rest
BlankRightOf(L) ==
  LET lefts == {words[k].x0 : k \in WordIdx \ L}
      rights == {words[k].x1 : k \in L}
  IN (CHOOSE x \in lefts : \A y \in lefts : x <= y)
       - (CHOOSE x \in rights : \A y \in rights : y <= x)

\* the left clusters of the page: the sets of words with more than
\* ColumnGapFactor median heights of blank space to all the other words
LeftClusters ==
  {L \in (SUBSET WordIdx) \ {{}, WordIdx} :
     BlankRightOf(L) > ColumnGapFactor * MedianHeight(words)}

\* where the text of the k-th word stands in the returned text
TokenPos(k) == CHOOSE p \in 1..Len(vtext) : vtext[p] = words[k].tk[1]

\* the words i and j stand on one line of the returned text
SameLine(i, j) ==
  \A p \in 1..Len(vtext) :
    (TokenPos(i) < p /\ p < TokenPos(j)) \/ (TokenPos(j) < p /\ p < TokenPos(i))
      => vtext[p] # "\n"

\* word i is above word j, or in its row and to its left
ReadsBefore(i, j) ==
  \/ words[i].y0 < words[j].y0
  \/ (words[i].y0 = words[j].y0 /\ words[i].x0 < words[j].x0)

\* the rows of the page are apart: two words have the same top edge, or
\* one lies wholly below the other
RowsApart ==
  \A i, j \in WordIdx :
    \/ words[i].y0 = words[j].y0
    \/ words[i].y1 <= words[j].y0
    \/ words[j].y1 <= words[i].y0

\* the words of a set, as the set of their records
WordsOf(S) == {words[k] : k \in S}

\* the words of a column, as a set
ColumnSet(c) == {cols[c][k] : k \in 1..Len(cols[c])}

\* two clusters with a wide blank between them come out as two columns,
\* the left one first, each top to bottom and left to right
C15_SplitWhenWide ==
  (vpc = "done" /\ words # <<>> /\ RowsApart /\ Cardinality(LeftClusters) = 1)
    => LET L == CHOOSE S \in LeftClusters : TRUE
           R == WordIdx \ L
       IN /\ Len(cols) = 2
          /\ ColumnSet(1) = WordsOf(L)
          /\ ColumnSet(2) = WordsOf(R)
          /\ \A i \in L, j \in R : TokenPos(i) < TokenPos(j)
          /\ \A i, j \in WordIdx :
               ((i \in L <=> j \in L) /\ ReadsBefore(i, j)) => TokenPos(i) < TokenPos(j)

\* without a wide blank the page is one column and the words of a row
\* stand on one line
C15_MergeWhenClose ==
  (vpc = "done" /\ words # <<>> /\ RowsApart /\ LeftClusters = {})
    => /\ Len(cols) = 1
       /\ \A i, j \in WordIdx : words[i].y0 = words[j].y0 => SameLine(i, j)

\* C15: two clusters of words separated by a blank wider than 6 median
\* word heights are put in two column groups, all of the left cluster is
\* emitted before any of the right one and each group is ordered top to
\* bottom, then left to right; with a blank at or below that width the
\* words form one column and the words of a row are emitted on one line.
C15_ColumnsFollowBlankSpace == C15_SplitWhenWide /\ C15_MergeWhenClose

\* the page has one column and its words are given in reading order:
\* each word is below the one before it, or in its row and right of it
InReadingOrder ==
  /\ RowsApart
  /\ LeftClusters = {}
  /\ \A k \in 1..(Len(words) - 1) :
       \/ words[k].y0 < words[k + 1].y0
       \/ (words[k].y0 = words[k + 1].y0 /\ words[k].x1 <= words[k + 1].x0)

\* C16: on a single-column page whose words are given top to bottom and
\* left to right, no column is split off and no word is moved: the text
\* lists the words in the given order, one line for each row.
C16_ReadingOrderKept ==
  (vpc = "done" /\ words # <<>> /\ InReadingOrder)
    => /\ Len(cols) = 1
       /\ \A i, j \in WordIdx : i < j => TokenPos(i) < TokenPos(j)
       /\ \A i, j \in WordIdx : SameLine(i, j) <=> words[i].y0 = words[j].y0

(* -------------------------- C21: colon tail --------------------------- *)
\* C21: for every accepted header whose line is of the shape "title: body"
\* with a non-empty fragment after the first colon, whichever strategy or
\* candidate rule accepted it, the text of the section is that fragment
\* followed by the lines of the body below the header.
C21_ColonTailPrepended ==
  (spc = "done" /\ headers # <<>>) =>
    \A j \in 1..Len(headers) :
      LET hline == lines[headers[j].idx + 1]
          frag == IF HasColon(hline) THEN Strip(AfterColon(hline)) ELSE <<>>
      IN frag # <<>> =>
           /\ StartsWith(sections[headers[j].canon].text, frag)
           /\ sections[headers[j].canon].text
                = Strip(Join(<<"\n">>, <<frag>> \o BetweenLines(j)))

(* ------------------------ C22: title resolution ----------------------- *)
\* the keys of the lexicon with a phrase contained in the title lt
KeysContained(lt) ==
  {SEARCH_SPACE[n].key : n \in {o \in 1..Len(SEARCH_SPACE) :
     \E m \in 1..Len(SEARCH_SPACE[o].terms) : Contains(lt, Lower(SEARCH_SPACE[o].terms[m]))}}

\* the keys the fuzzy scorer ranks highest for lt, when that score is 86
\* or more and fuzzy matching is available
KeysBestScored(lt) ==
  IF has_rapid /\ lt \in DOMAIN fuzzy_oracle
  THEN LET res == fuzzy_oracle[lt]
       IN {res[k].canon : k \in {o \in 1..Len(res) :
             /\ res[o].score >= 86
             /\ \A q \in 1..Len(res) : res[q].score <= res[o].score}}
  ELSE {}

\* a candidate's key follows from its title: a key with a contained
\* phrase; without any, a best-scored key; without any, no key
ResolvedByTitle(c) ==
  LET lt == Strip(Lower(c.title))
  IN IF KeysContained(lt) # {} THEN c.canon \in KeysContained(lt)
     ELSE IF KeysBestScored(lt) # {} THEN c.canon \in KeysBestScored(lt)
     ELSE c.canon = NoCanon

\* C22 (as claimed): in the fuzzy/keyword strategy every candidate,
\* numbered or not, gets its key from its title: by containment of a
\* lexicon phrase first, else by the best fuzzy score when it is at least
\* 86, else no key.
C22_KeyFromTitle ==
  (spc = "slice" /\ strategy = "fuzzy") => \A k \in 1..Len(cand_canon) : ResolvedByTitle(cand_canon[k])

\* C22 (amended): in the fuzzy/keyword strategy a candidate whose number
\* is one of 1..16 (written without a leading zero) gets the key of that
\* number, whatever its title; every other candidate gets its key from its
\* title: by containment of a lexicon phrase first, else by the best
\* fuzzy score when it is at least 86 and fuzzy matching is available,
\* else no key.
C22_KeyFromNumberThenTitle ==
  (spc = "slice" /\ strategy = "fuzzy") =>
    \A k \in 1..Len(cand_canon) :
      IF cand_canon[k].num \in DOMAIN NUM_TO_CANON
      THEN cand_canon[k].canon = NUM_TO_CANON[cand_canon[k].num]
      ELSE ResolvedByTitle(cand_canon[k])

\* a numbered candidate whose title names no key, and a candidate without
\* a number that only the fuzzy scorer resolves
C22_Witness ==
  /\ spc = "slice"
  /\ strategy = "fuzzy"
  /\ \E k \in 1..Len(cand_canon) :
       /\ cand_canon[k].num \in DOMAIN NUM_TO_CANON
       /\ ~ResolvedByTitle(cand_canon[k])
  /\ \E k \in 1..Len(cand_canon) :
       /\ cand_canon[k].num = ""
       /\ KeysContained(Strip(Lower(cand_canon[k].title))) = {}
       /\ cand_canon[k].canon # NoCanon

(* --------------------- C28: several keys in a title ------------------- *)
\* the first of the keys K in the order identification, hazards, ..., other
FirstInKeyOrder(K) ==
  CanonKeys[CHOOSE n \in 1..Len(CanonKeys) :
              CanonKeys[n] \in K /\ \A o \in 1..(n - 1) : CanonKeys[o] \notin K]

\* the title passed contains phrases of two or more keys, one of them
\* canonical
SeveralKeys ==
  /\ Cardinality(KeysContained(Strip(Lower(arg_title)))) >= 2
  /\ \E n \in 1..Len(CanonKeys) : CanonKeys[n] \in KeysContained(Strip(Lower(arg_title)))

\* C28 (as claimed): when the title contains phrases of two or more keys,
\* _map_title_to_canon returns the one that comes first in the key order
\* identification, hazards, ..., other, whatever the length and the place
\* of the phrases.
C28_FirstKeyInOrder ==
  (tpc = "returned" /\ SeveralKeys)
    => mapped = FirstInKeyOrder(KeysContained(Strip(Lower(arg_title))))

\* C28 (amended): when the title contains phrases of two or more keys and
\* the candidate carries no number hint that is a key of NUM_TO_CANON,
\* _map_title_to_canon returns the key that comes first in the key order
\* identification, hazards, ..., other, whatever the length and the place
\* of the phrases; with such a hint it returns the key of the number.
C28_FirstKeyInOrderWithoutHint ==
  (tpc = "returned" /\ SeveralKeys)
    => IF arg_hint \in DOMAIN NUM_TO_CANON
       THEN mapped = NUM_TO_CANON[arg_hint]
       ELSE mapped = FirstInKeyOrder(KeysContained(Strip(Lower(arg_title))))

\* "Hazards identification" without a usable hint resolves to
\* identification although a hazards phrase is in it
C28_Witness ==
  /\ tpc = "returned"
  /\ arg_title = Chars("Hazards identification")
  /\ arg_hint = "17"
  /\ "hazards" \in KeysContained(Strip(Lower(arg_title)))
  /\ mapped = "identification"

(* ------------------------- C23: rows and blanks ----------------------- *)
\* y_tol = max(3, 0.6 h) for the page, in hundredths of a tenth of a point
PageYTol == IF 6 * MedianHeight(words) > 300 THEN 6 * MedianHeight(words) ELSE 300

\* the whole number nearest to y0 / y_tol, the even one of two
NearestRow(w) ==
  CHOOSE k \in 0..((10 * w.y0) \div PageYTol + 1) :
    LET d == IF 10 * w.y0 >= k * PageYTol
             THEN 10 * w.y0 - k * PageYTol ELSE k * PageYTol - 10 * w.y0
    IN \/ 2 * d < PageYTol
       \/ (2 * d = PageYTol /\ k % 2 = 0)

\* the row keys of column c
RowsOf(c) == {NearestRow(cols[c][k]) : k \in 1..Len(cols[c])}

\* the number of lines emitted before those of column c
LinesBefore(c) ==
  LET F[d \in 0..Len(cols)] ==
        IF d = 0 THEN 0 ELSE F[d - 1] + Cardinality(RowsOf(d)) + 1
  IN F[c - 1]

\* the word of the page whose text is the character ch
WordOf(ch) == words[CHOOSE k \in WordIdx : words[k].tk = <<ch>>]

\* the line ln is the row of key r of column c: it holds the words of the
\* row and no other, from left to right, with one blank between two
\* neighbours exactly when the right one starts more than 0.3 h after the
\* end of the left one
IsRowLine(ln, c, r) ==
  LET inked == SelectSeq(ln, LAMBDA ch : ch # " ")
      blank(i) == 10 * (WordOf(inked[i + 1]).x0 - WordOf(inked[i]).x1)
                    > 3 * MedianHeight(words)
      built[i \in 1..Len(inked)] ==
        IF i = 1 THEN <<inked[1]>>
        ELSE built[i - 1] \o (IF blank(i - 1) THEN <<" ">> ELSE <<>>) \o <<inked[i]>>
  IN /\ Len(inked) = Cardinality({k \in 1..Len(cols[c]) : NearestRow(cols[c][k]) = r})
     /\ {inked[i] : i \in 1..Len(inked)}
          = {cols[c][k].tk[1] : k \in {o \in 1..Len(cols[c]) : NearestRow(cols[c][o]) = r}}
     /\ \A i \in 1..(Len(inked) - 1) : WordOf(inked[i]).x0 <= WordOf(inked[i + 1]).x0
     /\ ln = built[Len(inked)]

\* C23: within each detected column the words are grouped into rows by
\* round(y0 / y_tol) with y_tol = max(3, 0.6 h) and h the median word
\* height of the page; the rows come out in increasing row key, one line
\* for each key, the words of a row from left to right, and one blank
\* stands between two neighbours exactly when the right one starts more
\* than 0.3 h after the end of the left one.
C23_RowsAndBlanks ==
  (vpc = "done" /\ words # <<>>) =>
    \A c \in 1..Len(cols) :
      LET keys == SortedSeq(RowsOf(c))
      IN /\ LinesBefore(c) + Len(keys) < Len(lines_out)
         /\ \A j \in 1..Len(keys) : IsRowLine(lines_out[LinesBefore(c) + j], c, keys[j])

\* one column whose first row holds a word 3 points lower than the other
\* two, 3.0 points after the first and 48 points before the last
C23_Witness ==
  /\ vpc = "done"
  /\ Len(cols) = 1
  /\ \E i, j \in WordIdx : words[i].y0 # words[j].y0 /\ SameLine(i, j)
  /\ lines_out = << <<"a", "b", " ", "c">>, <<>> >>

(* ------------------- C29: no word lost or duplicated ------------------ *)
\* how often the character ch stands in the lines emitted
Occurrences(ch) ==
  LET F[i \in 0..Len(lines_out)] ==
        IF i = 0 THEN 0
        ELSE F[i - 1] + Cardinality({p \in 1..Len(lines_out[i]) : lines_out[i][p] = ch})
  IN F[Len(lines_out)]

\* the indices of the empty lines emitted, ascending
EmptyLines == SortedSeq({i \in 1..Len(lines_out) : lines_out[i] = <<>>})

\* the characters, blanks apart, of the lines from the i-th to the j-th
InkBetween(i, j) ==
  UNION {{lines_out[n][p] : p \in {q \in 1..Len(lines_out[n]) : lines_out[n][q] # " "}} :
           n \in i..j}

C30_CleanupIdempotent ==
  cpc = "done" => c_twice = c_once

\* a is b with some of its elements left out
RECURSIVE IsSubsequence(_, _)
IsSubsequence(a, b) ==
  IF a = <<>> THEN TRUE
  ELSE IF b = <<>> THEN FALSE
  ELSE IF a[1] = b[1] THEN IsSubsequence(Tail(a), Tail(b))
  ELSE IsSubsequence(a, Tail(b))

\* the lines of a page that do not both stand among its first two or last
\* two lines and look like a page number or a revision marker
LinesToKeep(plines) ==
  LET edge == {1, 2, Len(plines) - 1, Len(plines)}
      F[k \in 0..Len(plines)] ==
        IF k = 0 THEN <<>>
        ELSE IF k \in edge /\ HeaderFooterLike(plines[k]) THEN F[k - 1]
        ELSE Append(F[k - 1], plines[k])
  IN F[Len(plines)]

\* C25: header/footer stripping removes lines of the page only, and keeps, in
\* their order, all lines but those that look like a page number or a
\* revision marker and stand among the first two or last two lines
C25_OnlyEdgeMarkersRemoved ==
  hpc = "done" =>
    /\ IsSubsequence(SplitLines(kept_text), SplitLines(page_text))
    /\ IsSubsequence(LinesToKeep(SplitLines(page_text)), SplitLines(kept_text))

\* three successive lines of the text, from its k-th on, are empty
ThreeBlankLinesAt(t, k) ==
  LET ls == Split(t, "\n")
  IN k + 2 <= Len(ls) /\ ls[k] = <<>> /\ ls[k + 1] = <<>> /\ ls[k + 2] = <<>>

\* C24: the text returned by extract_pdf_text_visual_order holds no run of
\* three or more successive blank lines, whatever the pages yield
C24_NoThreeBlankLines ==
  dpc = "done" =>
    \A k \in 1..Len(doc_text) : ~ThreeBlankLinesAt(doc_text, k)

\* the normalized codes given to map_hcodes_to_pictos hold one of S
Has(S) == \E h \in hcodes : Upper(Strip(h)) \in Codes(S)

\* a Category 4 acute-toxicity code is present whose route has no Category
\* 1-3 code present
UnsuppressedCat4 ==
  \/ Has({"H302"}) /\ ~Has({"H300", "H301"})
  \/ Has({"H312"}) /\ ~Has({"H310", "H311"})
  \/ Has({"H332"}) /\ ~Has({"H330", "H331"})

\* C26: the acute-toxicity step keeps GHS07 when some Category 4 code's route
\* has no Category 1-3 code, and when another GHS07 trigger is present
C26_AcutePrecedencePerRoute ==
  [][ ( /\ gpc = "acute"
        /\ "GHS07" \in pictos
        /\ \/ UnsuppressedCat4
           \/ Has({"H315", "H319", "H317", "H335", "H336"}) )
      => "GHS07" \in pictos' ]_vars

\* C27: the corrosion step keeps GHS07 when a trigger other than H315/H319
\* is present: H317, H335, H336, or a Category 4 code not suppressed by a
\* Category 1-3 code of its own route
C27_CorrosionDropsIrritationOnly ==
  [][ ( /\ gpc = "corrosion"
        /\ "GHS07" \in pictos
        /\ \/ UnsuppressedCat4
           \/ Has({"H317", "H335", "H336"}) )
      => "GHS07" \in pictos' ]_vars

=============================================================================
